---- MODULE Spec2Model ----
(***************************************************************************)
(* Model of the event-to-task suggestion engine of OhTaskMe                *)
(* (src/events/task_suggestions.py): EventAnalyzer.classify_event_type,    *)
(* EventAnalyzer.analyze_event_complexity and generate_task_suggestions.   *)
(*                                                                         *)
(* Texts are strings and are searched character by character; Python       *)
(* floats are IEEE-754 binary64 values computed with round-to-nearest-even *)
(* on multi-limb integers; datetimes and timedeltas are the (days,         *)
(* seconds, microseconds) triples Python stores.                           *)
(***************************************************************************)
EXTENDS Integers, Sequences, FiniteSets, TLC

VARIABLES
    event,              \* the Event handed to the engine
    pc,                 \* which call has been made on it
    classification,     \* what event_analyzer.classify_event_type returned
    complexity,         \* what event_analyzer.analyze_event_complexity returned
    suggested_tasks,    \* list returned by generate_task_suggestions
    analysis_metadata,  \* the analysis_metadata local of generate_task_suggestions
    returned_type,      \* what the module's function classify_event_type returned
    calls,              \* the locals of each caller's generate_task_suggestions call
    shared,             \* EventAnalyzer.EVENT_CATEGORIES and the event_analyzer instance
    task_rows,          \* the Task table
    request,            \* the last request served
    response,           \* the response to it
    feedback,           \* the suggestion feedback processed so far
    event_rows,         \* the Event table
    streak,             \* a StreakTracking record
    largest_count,      \* the largest current_count the streak has reached
    user_stats,         \* a UserStatistics record
    xp_log,             \* its XPLog rows, oldest first
    badges,             \* its AchievementBadge rows
    goal                \* a UserGoals record of the same user

vars == <<event, pc, classification, complexity, suggested_tasks, analysis_metadata,
          returned_type,
          calls, shared, task_rows, request, response, feedback, event_rows,
          streak, largest_count, user_stats, xp_log, badges, goal>>

(***************************************************************************)
(* The variables belong to separate parts of the program, each with a      *)
(* specification of its own; while one part runs, the others stay at rest. *)
(***************************************************************************)
engine == <<event, pc, classification, complexity, suggested_tasks, analysis_metadata,
            returned_type>>

callers == <<calls, shared>>

api == <<task_rows, request, response, feedback>>

engineAtRest ==
    /\ event = <<>>
    /\ pc = "rest"
    /\ classification = <<>>
    /\ complexity = <<>>
    /\ suggested_tasks = <<>>
    /\ analysis_metadata = <<>>
    /\ returned_type = <<>>

callersAtRest ==
    /\ calls = <<>>
    /\ shared = <<>>

apiAtRest ==
    /\ task_rows = <<>>
    /\ request = <<>>
    /\ response = <<>>
    /\ feedback = <<>>

storeAtRest == event_rows = <<>>

statistics == <<streak, largest_count, user_stats, xp_log, badges, goal>>

statsAtRest ==
    /\ streak = <<>>
    /\ largest_count = 0
    /\ user_stats = <<>>
    /\ xp_log = <<>>
    /\ badges = {}
    /\ goal = <<>>

\* what the steps of each part leave alone
outsideEngine == <<callers, api, event_rows, statistics>>

outsideCallers == <<engine, api, event_rows, statistics>>

outsideApi == <<engine, callers, statistics>>

outsideStats == <<engine, callers, api, event_rows>>

(***************************************************************************)
(* Natural numbers of arbitrary size: little-endian sequences of limbs in  *)
(* base 2^15 without leading zero limbs (<<>> is 0).  They carry the       *)
(* 53-bit significands of Python floats.                                   *)
(***************************************************************************)
RECURSIVE Pow2(_)
Pow2(k) == IF k = 0 THEN 1 ELSE 2 * Pow2(k - 1)

Base == Pow2(15)

RECURSIVE BNorm(_)
BNorm(a) ==
    IF a = <<>> THEN a
    ELSE IF a[Len(a)] = 0 THEN BNorm(SubSeq(a, 1, Len(a) - 1)) ELSE a

RECURSIVE BFromInt(_)
BFromInt(n) == IF n = 0 THEN <<>> ELSE <<n % Base>> \o BFromInt(n \div Base)

RECURSIVE BToInt(_)
BToInt(a) == IF a = <<>> THEN 0 ELSE a[1] + Base * BToInt(Tail(a))

\* a * k + c for a small k (0 <= k <= Base) and a small carry c
RECURSIVE BMulSmallC(_, _, _)
BMulSmallC(a, k, c) ==
    IF a = <<>> THEN BFromInt(c)
    ELSE LET t == a[1] * k + c
         IN  <<t % Base>> \o BMulSmallC(Tail(a), k, t \div Base)

RECURSIVE BAddC(_, _, _)
BAddC(a, b, c) ==
    IF a = <<>> /\ b = <<>> THEN BFromInt(c)
    ELSE LET x == IF a = <<>> THEN 0 ELSE a[1]
             y == IF b = <<>> THEN 0 ELSE b[1]
             t == x + y + c
         IN  <<t % Base>> \o BAddC(IF a = <<>> THEN a ELSE Tail(a),
                                   IF b = <<>> THEN b ELSE Tail(b),
                                   t \div Base)

BAdd(a, b) == BAddC(a, b, 0)

RECURSIVE BMul(_, _)
BMul(a, b) ==
    IF a = <<>> \/ b = <<>> THEN <<>>
    ELSE BNorm(BAdd(BMulSmallC(a, b[1], 0), <<0>> \o BMul(a, Tail(b))))

\* quotient and remainder of a by a small d (0 < d <= Base); BDivStep brings
\* down the limb lo below the quotient and remainder hi of the higher limbs
BDivStep(hi, lo, d) ==
    [q |-> BNorm(<<(hi.r * Base + lo) \div d>> \o hi.q), r |-> (hi.r * Base + lo) % d]

RECURSIVE BDivRem(_, _)
BDivRem(a, d) ==
    IF a = <<>> THEN [q |-> <<>>, r |-> 0]
    ELSE BDivStep(BDivRem(Tail(a), d), a[1], d)

RECURSIVE IntBits(_)
IntBits(n) == IF n = 0 THEN 0 ELSE 1 + IntBits(n \div 2)

BBits(a) == IF a = <<>> THEN 0 ELSE 15 * (Len(a) - 1) + IntBits(a[Len(a)])

BOdd(a) == a # <<>> /\ a[1] % 2 = 1

RECURSIVE BLess(_, _)
BLess(a, b) ==
    IF Len(a) # Len(b) THEN Len(a) < Len(b)
    ELSE IF a = <<>> THEN FALSE
    ELSE IF a[Len(a)] # b[Len(b)] THEN a[Len(a)] < b[Len(b)]
    ELSE BLess(SubSeq(a, 1, Len(a) - 1), SubSeq(b, 1, Len(b) - 1))

RECURSIVE Zeros(_)
Zeros(n) == IF n = 0 THEN <<>> ELSE <<0>> \o Zeros(n - 1)

BShl(a, k) ==
    IF a = <<>> THEN a
    ELSE Zeros(k \div 15) \o BMulSmallC(a, Pow2(k % 15), 0)

\* a shifted right by k bits, and whether a nonzero bit was shifted out
BShrOf(d, low) ==
    [v |-> d.q, lost |-> d.r # 0 \/ \E i \in 1..Len(low) : low[i] # 0]

BShr(a, k) ==
    BShrOf(BDivRem(SubSeq(a, k \div 15 + 1, Len(a)), Pow2(k % 15)),
           SubSeq(a, 1, IF k \div 15 < Len(a) THEN k \div 15 ELSE Len(a)))

(***************************************************************************)
(* Python floats (non-negative, normal range): m * 2^e with a 53-bit m,    *)
(* or zero.  Every operation rounds to nearest, ties to even.              *)
(***************************************************************************)
FZero == [m |-> <<>>, e |-> 0]

\* the float nearest to n * 2^e (+ a nonzero amount below one unit of n
\* when sticky): FRound cuts n to 54 bits, FRoundCut splits off the rounding
\* bit, FRoundUp rounds to nearest, ties to even, FRenorm absorbs a carry
\* into a 54th bit.
FRenorm(q, e) ==
    IF BBits(q) = 54 THEN [m |-> BDivRem(q, 2).q, e |-> e + 1] ELSE [m |-> q, e |-> e]

FRoundUp(q, rb, below, e) ==
    FRenorm(IF rb /\ (below \/ BOdd(q)) THEN BAdd(q, <<1>>) ELSE q, e)

FRoundCut(t, e, sticky) ==
    FRoundUp(BDivRem(t.v, 2).q, BOdd(t.v), t.lost \/ sticky, e)

FRoundBits(n, e, sticky, L) ==
    IF L <= 53 THEN [m |-> BShl(n, 53 - L), e |-> e - (53 - L)]
    ELSE FRoundCut(BShr(n, L - 54), e + (L - 53), sticky)

FRound(n, e, sticky) ==
    IF n = <<>> THEN FZero ELSE FRoundBits(n, e, sticky, BBits(n))

FromInt(n) == FRound(BFromInt(n), 0, FALSE)

FMul(x, y) == FRound(BMul(x.m, y.m), x.e + y.e, FALSE)

FAdd(x, y) ==
    IF x.m = <<>> THEN y
    ELSE IF y.m = <<>> THEN x
    ELSE LET e0 == IF x.e < y.e THEN x.e ELSE y.e
         IN  FRound(BAdd(BShl(x.m, x.e - e0), BShl(y.m, y.e - e0)), e0, FALSE)

\* the float nearest to qr.q * 2^e, qr.r telling whether the division that
\* gave qr.q left a remainder
FQuotient(qr, e) == FRound(qr.q, e, qr.r # 0)

\* x / d for an integer d with 0 < d <= Base
FDivInt(x, d) == FQuotient(BDivRem(BShl(x.m, 20), d), x.e - 20)

\* the float a decimal literal num/den denotes, and int / int true division
\* (0 < den <= Base)
Ratio(num, den) == FQuotient(BDivRem(BShl(BFromInt(num), 75), den), 0 - 75)

FLess(x, y) ==
    IF y.m = <<>> THEN FALSE
    ELSE IF x.m = <<>> THEN TRUE
    ELSE x.e < y.e \/ (x.e = y.e /\ BLess(x.m, y.m))

FLeq(x, y) == ~FLess(y, x)

FMin(x, y) == IF FLess(y, x) THEN y ELSE x

\* math.modf: integer part (a multi-limb natural) and fractional part
FIntPart(x) ==
    IF x.e >= 0 THEN BShl(x.m, x.e) ELSE BShr(x.m, 0 - x.e).v

FFracPart(x) ==
    IF x.e >= 0 THEN FZero
    ELSE LET \* the bits of x.m below the binary point
             k  == (0 - x.e)
             lowLimbs == k \div 15
             fr == IF k >= 53 THEN x.m
                   ELSE BNorm(SubSeq(x.m, 1, lowLimbs)
                          \o (IF lowLimbs < Len(x.m)
                              THEN <<x.m[lowLimbs + 1] % Pow2(k % 15)>>
                              ELSE <<>>))
         IN  FRound(fr, x.e, FALSE)

\* int(x) for 0 <= x < 2^31
FTrunc(x) == BToInt(FIntPart(x))

(***************************************************************************)
(* Strings.  A text that is searched is the sequence of its characters     *)
(* (Chars).  str.lower(), the `in` substring test, str.format and the      *)
(* subset of regular expressions the catalog uses, matched the way         *)
(* re.findall does (leftmost, backtracking in priority order, matches not  *)
(* overlapping).                                                           *)
(***************************************************************************)
UpperLetters == "ABCDEFGHIJKLMNOPQRSTUVWXYZ"

LowerLetters == "abcdefghijklmnopqrstuvwxyz"

Digits == "0123456789"

CharAt(s, i) == SubSeq(s, i, i)

Chars(s) == [i \in 1..Len(s) |-> CharAt(s, i)]

LowerMap ==
    [c \in {CharAt(UpperLetters, i) : i \in 1..26} |->
        CharAt(LowerLetters, CHOOSE i \in 1..26 : CharAt(UpperLetters, i) = c)]

LowerChar(c) == IF c \in DOMAIN LowerMap THEN LowerMap[c] ELSE c

\* str.lower() on a character sequence
Lower(cs) == [i \in 1..Len(cs) |-> LowerChar(cs[i])]

\* the literal occurs in the text at position i
StartsAt(lit, text, i) ==
    /\ i + Len(lit) - 1 <= Len(text)
    /\ \A j \in 1..Len(lit) : text[i + j - 1] = lit[j]

\* Python `kw in text`
Contains(kw, text) ==
    \E i \in 1..(Len(text) - Len(kw) + 1) : \A j \in 1..Len(kw) : text[i + j - 1] = kw[j]

\* a list of keywords, each as its characters
Words(list) == [i \in 1..Len(list) |-> Chars(list[i])]

\* \w, \s and . of the re module on ASCII text
WordChars ==
    {CharAt(UpperLetters, i) : i \in 1..26} \cup
    {CharAt(LowerLetters, i) : i \in 1..26} \cup
    {CharAt(Digits, i) : i \in 1..10} \cup {"_"}

SpaceChars == {" ", "\t", "\n", "\r", "\f"}

IsWordAt(text, i) == i >= 1 /\ i <= Len(text) /\ text[i] \in WordChars

\* \b holds before position i (1..Len(text)+1)
IsBoundary(text, i) == IsWordAt(text, i - 1) # IsWordAt(text, i)

\* pattern elements: \b, (a|b|c), a literal, .*, \s*, \s+
WB == [t |-> "wb"]

Alt(a) == [t |-> "alt", a |-> Words(a)]

Lit(s) == [t |-> "alt", a |-> Words(<<s>>)]

AnyStar == [t |-> "any*"]

SpStar == [t |-> "s*"]

SpPlus == [t |-> "s+"]

\* position after the longest run from i of \s characters (sp) or of
\* characters other than newline
RECURSIVE RunEnd(_, _, _)
RunEnd(text, i, sp) ==
    IF i <= Len(text) /\ (IF sp THEN text[i] \in SpaceChars ELSE text[i] # "\n")
    THEN RunEnd(text, i + 1, sp)
    ELSE i

\* MatchFrom: the position after the match of elements k.. of pattern p begun
\* at position i, or 0 when there is none; alternatives are tried in order
\* and repetitions longest first, as the backtracking matcher does.
RECURSIVE MatchFrom(_, _, _, _), TryAlts(_, _, _, _, _), TryDown(_, _, _, _, _)
MatchFrom(text, p, k, i) ==
    IF k > Len(p) THEN i
    ELSE CASE p[k].t = "wb"   -> IF IsBoundary(text, i)
                                 THEN MatchFrom(text, p, k + 1, i) ELSE 0
           [] p[k].t = "alt"  -> TryAlts(text, p, k, i, 1)
           [] p[k].t = "any*" -> TryDown(text, p, k + 1, RunEnd(text, i, FALSE), i)
           [] p[k].t = "s*"   -> TryDown(text, p, k + 1, RunEnd(text, i, TRUE), i)
           [] p[k].t = "s+"   -> TryDown(text, p, k + 1, RunEnd(text, i, TRUE), i + 1)

TryAlts(text, p, k, i, a) ==
    IF a > Len(p[k].a) THEN 0
    ELSE IF StartsAt(p[k].a[a], text, i)
         THEN LET r == MatchFrom(text, p, k + 1, i + Len(p[k].a[a]))
              IN  IF r # 0 THEN r ELSE TryAlts(text, p, k, i, a + 1)
         ELSE TryAlts(text, p, k, i, a + 1)

TryDown(text, p, k, j, lo) ==
    IF j < lo THEN 0
    ELSE LET r == MatchFrom(text, p, k, j)
         IN  IF r # 0 THEN r ELSE TryDown(text, p, k, j - 1, lo)

\* len(re.findall(pattern, text)), scanning from position i; r is the end
\* of the match begun at i (an empty match advances by one)
RECURSIVE CountMatches(_, _, _), CountFrom(_, _, _, _)
CountFrom(text, p, i, r) ==
    IF r = 0 THEN CountMatches(text, p, i + 1)
    ELSE 1 + CountMatches(text, p, IF r = i THEN i + 1 ELSE r)

CountMatches(text, p, i) ==
    IF i > Len(text) + 1 THEN 0
    ELSE CountFrom(text, p, i, MatchFrom(text, p, 1, i))

FindAllCount(p, text) == CountMatches(text, p, 1)

\* template.format(event_title=title), on strings
Placeholder == "{event_title}"

RECURSIVE Format(_, _)
Format(template, title) ==
    IF Len(template) = 0 THEN template
    ELSE IF CharAt(template, 1) = "{"
            /\ Len(template) >= Len(Placeholder)
            /\ SubSeq(template, 1, Len(Placeholder)) = Placeholder
         THEN title \o Format(SubSeq(template, Len(Placeholder) + 1, Len(template)), title)
         ELSE CharAt(template, 1) \o Format(SubSeq(template, 2, Len(template)), title)

(***************************************************************************)
(* EventAnalyzer.EVENT_CATEGORIES: the pattern catalog.  A task template   *)
(* without 'days_before' / 'days_after' has None there (dict.get default); *)
(* a present number of days n is Days(n).  A 'complexity_multiplier'       *)
(* literal d.d is written as its tenths; Multiplier is the float it        *)
(* denotes.                                                                *)
(***************************************************************************)
None == <<>>

Days(n) == <<n>>

Template(template, days_before, days_after, complexity_multiplier) ==
    [template |-> template, days_before |-> days_before,
     days_after |-> days_after, complexity_multiplier |-> complexity_multiplier]

Multiplier(task_template) == Ratio(task_template.complexity_multiplier, 10)

Meeting ==
    [patterns |-> <<
        <<WB, Alt(<<"meeting", "conference", "call", "discussion", "sync", "standup", "review", "presentation">>), WB>>,
        <<WB, Alt(<<"client", "team", "board", "staff", "committee">>), WB, AnyStar, WB, Alt(<<"meeting", "call">>), WB>>,
        <<WB, Alt(<<"zoom", "teams", "skype", "webex">>), WB, AnyStar, WB, Alt(<<"call", "meeting">>), WB>>
     >>,
     complexity_factors |->
        [high   |-> Words(<<"board", "client", "presentation", "conference", "annual">>),
         medium |-> Words(<<"team", "review", "planning", "quarterly">>),
         low    |-> Words(<<"standup", "sync", "quick", "brief", "check-in">>)],
     base_prep_days |-> 2,
     tasks |-> <<
        Template("Review agenda and prepare talking points for {event_title}",
                 None, None, 10),
        Template("Gather relevant documents and materials for {event_title}",
                 None, None, 8),
        Template("Test technology setup for {event_title}",
                 None, None, 3),
        Template("Send reminder and confirmation for {event_title}",
                 None, None, 2),
        Template("Follow up with action items from {event_title}",
                 None, Days(1), 5)
     >>]

ExamStudy ==
    [patterns |-> <<
        <<WB, Alt(<<"exam", "test", "quiz", "assessment", "evaluation", "midterm", "final">>), WB>>,
        <<WB, Alt(<<"study", "preparation", "review">>), WB, AnyStar, WB, Alt(<<"exam", "test">>), WB>>,
        <<WB, Alt(<<"examination", "assessment">>), WB>>,
        <<WB, Lit("mid"), SpStar, Alt(<<"semester", "term">>), SpStar, Alt(<<"exam", "test", "assessment">>), WB>>,
        <<WB, Alt(<<"semester", "term">>), SpStar, Alt(<<"exam", "test", "assessment">>), WB>>
     >>,
     complexity_factors |->
        [high   |-> Words(<<"final", "comprehensive", "board", "certification", "licensing">>),
         medium |-> Words(<<"midterm", "unit", "module", "chapter">>),
         low    |-> Words(<<"quiz", "pop", "quick", "review">>)],
     base_prep_days |-> 7,
     tasks |-> <<
        Template("Create study schedule for {event_title}",
                 None, None, 10),
        Template("Review course materials and notes for {event_title}",
                 None, None, 12),
        Template("Practice problems and past papers for {event_title}",
                 None, None, 10),
        Template("Create summary notes and flashcards for {event_title}",
                 None, None, 8),
        Template("Final review session for {event_title}",
                 Days(1), None, 6),
        Template("Gather exam materials and check requirements for {event_title}",
                 Days(1), None, 3)
     >>]

Travel ==
    [patterns |-> <<
        <<WB, Alt(<<"trip", "travel", "flight", "journey", "vacation", "holiday", "tour">>), WB>>,
        <<WB, Alt(<<"business", "work">>), SpPlus, Alt(<<"trip", "travel">>), WB>>,
        <<WB, Alt(<<"conference", "seminar">>), WB, AnyStar, WB, Alt(<<"travel", "trip">>), WB>>
     >>,
     complexity_factors |->
        [high   |-> Words(<<"international", "business", "conference", "extended", "family">>),
         medium |-> Words(<<"domestic", "weekend", "short", "personal">>),
         low    |-> Words(<<"day", "local", "nearby">>)],
     base_prep_days |-> 5,
     tasks |-> <<
        Template("Research and book transportation for {event_title}",
                 None, None, 10),
        Template("Arrange accommodation for {event_title}",
                 None, None, 9),
        Template("Create packing checklist for {event_title}",
                 None, None, 6),
        Template("Check weather and prepare appropriate clothing for {event_title}",
                 None, None, 4),
        Template("Arrange transportation to airport/station for {event_title}",
                 None, None, 5),
        Template("Check travel documents and requirements for {event_title}",
                 None, None, 7),
        Template("Pack essentials and final preparations for {event_title}",
                 Days(1), None, 3)
     >>]

Project ==
    [patterns |-> <<
        <<WB, Alt(<<"project", "deadline", "launch", "release", "deployment", "milestone">>), WB>>,
        <<WB, Alt(<<"deliverable", "submission", "presentation">>), WB, AnyStar, WB, Alt(<<"due", "deadline">>), WB>>,
        <<WB, Alt(<<"sprint", "iteration">>), WB, AnyStar, WB, Alt(<<"review", "demo">>), WB>>
     >>,
     complexity_factors |->
        [high   |-> Words(<<"major", "critical", "launch", "release", "final">>),
         medium |-> Words(<<"milestone", "phase", "module", "component">>),
         low    |-> Words(<<"minor", "update", "patch", "quick">>)],
     base_prep_days |-> 10,
     tasks |-> <<
        Template("Break down project scope and create timeline for {event_title}",
                 None, None, 10),
        Template("Assign resources and responsibilities for {event_title}",
                 None, None, 8),
        Template("Set up project tracking and communication channels for {event_title}",
                 None, None, 6),
        Template("Create quality assurance and testing plan for {event_title}",
                 None, None, 9),
        Template("Prepare documentation and user guides for {event_title}",
                 None, None, 7),
        Template("Final review and testing before {event_title}",
                 Days(2), None, 8),
        Template("Post-project review and documentation for {event_title}",
                 None, Days(3), 6)
     >>]

Presentation ==
    [patterns |-> <<
        <<WB, Alt(<<"presentation", "pitch", "demo", "speech", "talk", "lecture">>), WB>>,
        <<WB, Alt(<<"present", "presenting">>), WB, AnyStar, WB, Alt(<<"to", "at", "for">>), WB>>,
        <<WB, Alt(<<"keynote", "workshop", "seminar">>), WB>>
     >>,
     complexity_factors |->
        [high   |-> Words(<<"keynote", "conference", "board", "client", "public">>),
         medium |-> Words(<<"team", "departmental", "training", "workshop">>),
         low    |-> Words(<<"informal", "quick", "update", "brief">>)],
     base_prep_days |-> 5,
     tasks |-> <<
        Template("Research audience and tailor content for {event_title}",
                 None, None, 10),
        Template("Create presentation outline and structure for {event_title}",
                 None, None, 9),
        Template("Develop slides and visual materials for {event_title}",
                 None, None, 11),
        Template("Practice presentation delivery for {event_title}",
                 None, None, 8),
        Template("Prepare for Q&A and potential questions for {event_title}",
                 None, None, 7),
        Template("Test technical setup and backup plans for {event_title}",
                 Days(1), None, 4),
        Template("Gather feedback and follow up after {event_title}",
                 None, Days(1), 3)
     >>]

Appointment ==
    [patterns |-> <<
        <<WB, Alt(<<"appointment", "consultation", "checkup", "visit", "interview">>), WB>>,
        <<WB, Alt(<<"doctor", "dentist", "medical", "health">>), WB, AnyStar, WB, Alt(<<"appointment", "visit">>), WB>>,
        <<WB, Alt(<<"job", "employment">>), WB, AnyStar, WB, Alt(<<"interview", "meeting">>), WB>>
     >>,
     complexity_factors |->
        [high   |-> Words(<<"job", "medical", "specialist", "important", "final">>),
         medium |-> Words(<<"consultation", "interview", "checkup">>),
         low    |-> Words(<<"routine", "follow-up", "quick", "brief">>)],
     base_prep_days |-> 2,
     tasks |-> <<
        Template("Confirm appointment details and location for {event_title}",
                 None, None, 3),
        Template("Prepare necessary documents and information for {event_title}",
                 None, None, 7),
        Template("Research and prepare questions for {event_title}",
                 None, None, 6),
        Template("Plan transportation and allow extra time for {event_title}",
                 None, None, 4),
        Template("Follow up on outcomes and next steps from {event_title}",
                 None, Days(1), 4)
     >>]

SocialEvent ==
    [patterns |-> <<
        <<WB, Alt(<<"party", "celebration", "birthday", "anniversary", "wedding", "gathering">>), WB>>,
        <<WB, Alt(<<"dinner", "lunch", "social", "hangout", "meetup">>), WB>>,
        <<WB, Alt(<<"holiday", "festival", "cultural">>), WB, AnyStar, WB, Alt(<<"event", "celebration">>), WB>>
     >>,
     complexity_factors |->
        [high   |-> Words(<<"wedding", "anniversary", "major", "formal", "hosted">>),
         medium |-> Words(<<"birthday", "celebration", "dinner", "gathering">>),
         low    |-> Words(<<"casual", "informal", "small", "simple">>)],
     base_prep_days |-> 3,
     tasks |-> <<
        Template("Plan guest list and send invitations for {event_title}",
                 None, None, 8),
        Template("Arrange venue and necessary reservations for {event_title}",
                 None, None, 9),
        Template("Plan menu, catering, or restaurant for {event_title}",
                 None, None, 7),
        Template("Choose appropriate outfit or attire for {event_title}",
                 None, None, 3),
        Template("Prepare gifts, cards, or contributions for {event_title}",
                 None, None, 5),
        Template("Send thank you messages after {event_title}",
                 None, Days(1), 2)
     >>]

\* the dict's iteration (insertion) order
CategoryOrder ==
    <<"meeting", "exam_study", "travel", "project", "presentation",
      "appointment", "social_event">>

CategoryNames == {CategoryOrder[i] : i \in 1..Len(CategoryOrder)}

EVENT_CATEGORIES ==
    [c \in CategoryNames |->
        CASE c = "meeting"      -> Meeting
          [] c = "exam_study"   -> ExamStudy
          [] c = "travel"       -> Travel
          [] c = "project"      -> Project
          [] c = "presentation" -> Presentation
          [] c = "appointment"  -> Appointment
          [] c = "social_event" -> SocialEvent]

\* category_keywords of classify_event_type: the title-only bonus words
CategoryKeywords ==
    [c \in CategoryNames |->
        CASE c = "exam_study"   -> Words(<<"exam", "test", "quiz", "midterm", "final", "assessment">>)
          [] c = "meeting"      -> Words(<<"meeting", "conference", "call", "discussion">>)
          [] c = "travel"       -> Words(<<"trip", "travel", "flight", "vacation">>)
          [] c = "project"      -> Words(<<"project", "deadline", "launch", "release">>)
          [] c = "presentation" -> Words(<<"presentation", "pitch", "demo", "speech">>)
          [] c = "appointment"  -> Words(<<"appointment", "consultation", "checkup">>)
          [] c = "social_event" -> Words(<<"party", "celebration", "birthday", "wedding">>)]

(***************************************************************************)
(* EventAnalyzer.classify_event_type.  The spaCy entities and the          *)
(* 'matched_patterns' list are returned by the code but read by nothing;   *)
(* they are left out.  The no-score confidence is the int 50 in the code,  *)
(* which compares and divides as the float 50.0 does.                      *)
(***************************************************************************)
RECURSIVE SumSeq(_)
SumSeq(s) == IF s = <<>> THEN 0 ELSE s[1] + SumSeq(Tail(s))

\* number of keywords of the list contained in the text
CountIn(keywords, text) ==
    Cardinality({i \in 1..Len(keywords) : Contains(keywords[i], text)})

\* mutant: the weight of a pattern is its index times 10
PatternScoreByIndex(patterns, text) ==
    SumSeq([i \in 1..Len(patterns) |-> FindAllCount(patterns[i], text) * ((i - 1) * 10)])

\* sum over patterns of len(matches) * (i + 1) * 10, i counted from 0
PatternScore(patterns, text) ==
    SumSeq([i \in 1..Len(patterns) |-> FindAllCount(patterns[i], text) * (i * 10)])

TitleKeywordBonus == 50

TitleScore(category, title_lower) ==
    TitleKeywordBonus * CountIn(CategoryKeywords[category], title_lower)

ComplexityFactorScore(factors, text) ==
      5 * CountIn(factors.high, text)
    + 3 * CountIn(factors.medium, text)
    + 1 * CountIn(factors.low, text)

ConfigScore(config, text) ==
      PatternScore(config.patterns, text)
    + ComplexityFactorScore(config.complexity_factors, text)

CategoryScore(category, text, title_lower) ==
    ConfigScore(EVENT_CATEGORIES[category], text) + TitleScore(category, title_lower)

\* the loop over EVENT_CATEGORIES.items(): the scores in catalog order
RECURSIVE ScoreLoop(_, _, _)
ScoreLoop(text, title_lower, i) ==
    IF i > Len(CategoryOrder) THEN <<>>
    ELSE <<CategoryScore(CategoryOrder[i], text, title_lower)>>
         \o ScoreLoop(text, title_lower, i + 1)

\* mutant: among equal scores the last key wins
RECURSIVE MaxKeyLast(_, _, _)
MaxKeyLast(scores, i, best) ==
    IF i > Len(scores) THEN best
    ELSE MaxKeyLast(scores, i + 1, IF scores[i] >= scores[best] THEN i ELSE best)

\* max(keys, key=...): the first key, in iteration order, with the largest
\* score (as its position in CategoryOrder)
RECURSIVE MaxKey(_, _, _)
MaxKey(scores, i, best) ==
    IF i > Len(scores) THEN best
    ELSE MaxKey(scores, i + 1, IF scores[i] > scores[best] THEN i ELSE best)

CategoryIndex(c) == CHOOSE i \in 1..Len(CategoryOrder) : CategoryOrder[i] = c

\* confidence = (best_score / max(total_score, 1)) * 100 if total_score > 0 else 50
FallbackConfidence == 50

Confidence(best_score, total_score) ==
    IF total_score > 0
    THEN FMul(Ratio(best_score, IF total_score > 1 THEN total_score ELSE 1), FromInt(100))
    ELSE FromInt(FallbackConfidence)

\* the low-confidence fallback and the cap of the returned confidence
LowConfidence == 30

ClassificationCap == 95

\* mutant: the returned confidence is not capped
FallbackUncapped(best_category, confidence) ==
    IF FLess(confidence, FromInt(LowConfidence))
    THEN [type |-> "general", confidence |-> FromInt(FallbackConfidence)]
    ELSE [type |-> best_category, confidence |-> confidence]

Fallback(best_category, confidence) ==
    IF FLess(confidence, FromInt(LowConfidence))
    THEN [type |-> "general", confidence |-> FromInt(FallbackConfidence)]
    ELSE [type |-> best_category,
          confidence |-> FMin(confidence, FromInt(ClassificationCap))]

\* the returned dict, from the scores in catalog order and the winner
ClassificationOf(scores, result) ==
    [type       |-> result.type,
     confidence |-> result.confidence,
     all_scores |-> [c \in CategoryNames |-> scores[CategoryIndex(c)]]]

BestOf(scores, best) ==
    ClassificationOf(scores,
                     Fallback(CategoryOrder[best], Confidence(scores[best], SumSeq(scores))))

ScoresOf(scores) == BestOf(scores, MaxKey(scores, 2, 1))

ClassifyEventType(title, description, location) ==
    ScoresOf(ScoreLoop(Lower(Chars(title \o " " \o description \o " " \o location)),
                       Lower(Chars(title)), 1))

(***************************************************************************)
(* EventAnalyzer.analyze_event_complexity and _get_complexity_category.    *)
(* duration_hours is a signed float: [neg, f] stands for -f or +f.         *)
(***************************************************************************)
\* mutant: the comparison looks at the length of the duration, not at its sign
DurationGTMagnitude(duration_hours, h) ==
    FLess(FromInt(h), duration_hours.f)

\* `duration_hours > h`
DurationGT(duration_hours, h) ==
    ~duration_hours.neg /\ FLess(FromInt(h), duration_hours.f)

GetComplexityCategory(score) ==
    IF FLeq(FromInt(2), score) THEN "high"
    ELSE IF FLeq(Ratio(13, 10), score) THEN "medium"
    ELSE "low"

LocationWords == Words(<<"international", "airport", "conference center">>)

\* mutant: 'comprehensive' counts as a high-priority keyword
HighComplexityNamesWithComprehensive ==
    <<"critical", "important", "major", "final", "board", "client", "public",
      "comprehensive">>

HighComplexityNames ==
    <<"critical", "important", "major", "final", "board", "client", "public">>

HighComplexityWords == Words(HighComplexityNames)

StakeholderWords ==
    Words(<<"team", "client", "board", "committee", "group", "department">>)

ComplexityCap == 3

\* mutant: the score is returned uncapped
CapScoreUncapped(complexity_score) == complexity_score

\* min(complexity_score, 3.0)
CapScore(complexity_score) == FMin(complexity_score, FromInt(ComplexityCap))

\* the loop over high_complexity_words, from word i on
RECURSIVE KeywordLoop(_, _, _)
KeywordLoop(text, i, acc) ==
    IF i > Len(HighComplexityWords) THEN acc
    ELSE KeywordLoop(text, i + 1,
            IF Contains(HighComplexityWords[i], text)
            THEN [score   |-> FMul(acc.score, Ratio(12, 10)),
                  factors |-> Append(acc.factors,
                                "high-priority keyword: " \o HighComplexityNames[i])]
            ELSE acc)

DurationStep(duration_hours, acc) ==
    IF DurationGT(duration_hours, 4)
    THEN [score   |-> FMul(acc.score, Ratio(15, 10)),
          factors |-> Append(acc.factors, "long duration")]
    ELSE IF DurationGT(duration_hours, 8)
    THEN [score   |-> FMul(acc.score, FromInt(2)),
          factors |-> Append(acc.factors, "very long duration")]
    ELSE acc

LocationStep(location, acc) ==
    IF \E i \in 1..Len(LocationWords) : Contains(LocationWords[i], Lower(Chars(location)))
    THEN [score   |-> FMul(acc.score, Ratio(13, 10)),
          factors |-> Append(acc.factors, "complex location")]
    ELSE acc

\* mutant: any number of stakeholder keywords counts as one
StakeholderFactorFlat(stakeholder_count, acc) ==
    IF stakeholder_count > 0
    THEN [score   |-> FMul(acc.score, FAdd(FromInt(1), Ratio(1, 10))),
          factors |-> Append(acc.factors,
                        "multiple stakeholders (" \o ToString(stakeholder_count) \o ")")]
    ELSE acc

StakeholderFactor(stakeholder_count, acc) ==
    IF stakeholder_count > 0
    THEN [score   |-> FMul(acc.score,
                           FAdd(FromInt(1),
                                FMul(Ratio(1, 10), FromInt(stakeholder_count)))),
          factors |-> Append(acc.factors,
                        "multiple stakeholders (" \o ToString(stakeholder_count) \o ")")]
    ELSE acc

StakeholderStep(text, acc) == StakeholderFactor(CountIn(StakeholderWords, text), acc)

\* the four factor steps in the order of the code, from score 1.0
ComplexityFactors(text, location, duration_hours) ==
    StakeholderStep(text,
        KeywordLoop(text, 1,
            LocationStep(location,
                DurationStep(duration_hours, [score |-> FromInt(1), factors |-> <<>>]))))

\* the returned dict: the capped score, and the category of the uncapped one
ComplexityResult(acc) ==
    [score    |-> CapScore(acc.score),
     factors  |-> acc.factors,
     category |-> GetComplexityCategory(acc.score)]

AnalyzeEventComplexity(title, description, location, duration_hours) ==
    ComplexityResult(
        ComplexityFactors(Lower(Chars(title \o " " \o description \o " " \o location)),
                          location, duration_hours))

(***************************************************************************)
(* datetime and timedelta: (days, seconds, microseconds) with              *)
(* 0 <= seconds < 86400 and 0 <= microseconds < 1000000, compared and      *)
(* added field by field with carries, as Python normalises them.           *)
(***************************************************************************)
SecondsPerDay == 24 * 3600

MicrosPerSecond == 1000 * 1000

Normalize(days, seconds, microseconds) ==
    LET s2 == seconds + (microseconds \div MicrosPerSecond)
    IN  [days         |-> days + (s2 \div SecondsPerDay),
         seconds      |-> s2 % SecondsPerDay,
         microseconds |-> microseconds % MicrosPerSecond]

DtAdd(t, d) ==
    Normalize(t.days + d.days, t.seconds + d.seconds, t.microseconds + d.microseconds)

DtSub(t, d) ==
    Normalize(t.days - d.days, t.seconds - d.seconds, t.microseconds - d.microseconds)

DtLess(a, b) ==
    \/ a.days < b.days
    \/ a.days = b.days /\ a.seconds < b.seconds
    \/ a.days = b.days /\ a.seconds = b.seconds /\ a.microseconds < b.microseconds

DtLeq(a, b) == ~DtLess(b, a)

\* timedelta(days=n) for an int n
TimedeltaDays(n) == Normalize(n, 0, 0)

\* timedelta(days=x) for a float x >= 0: whole days exactly, the fraction
\* times the microseconds of a day in float arithmetic, the rest rounded
\* half to even
UsPerDay == FRound(BMul(BFromInt(SecondsPerDay), BFromInt(MicrosPerSecond)), 0, FALSE)

\* days, and us microseconds, as a timedelta
TimedeltaMicros(intpart, us) ==
    LET lo == BDivRem(us, 1000)
        hi == BDivRem(lo.q, 1000)
    IN  Normalize(intpart, BToInt(hi.q), hi.r * 1000 + lo.r)

\* round(leftover + whole) with ties to even
TimedeltaRound(intpart, whole, leftover, half) ==
    TimedeltaMicros(intpart,
        IF FLess(half, leftover) \/ (leftover = half /\ BOdd(whole))
        THEN BAdd(whole, <<1>>) ELSE whole)

TimedeltaSplit(intpart, dnum) ==
    TimedeltaRound(intpart, FIntPart(dnum), FFracPart(dnum), Ratio(1, 2))

TimedeltaDaysFloat(x) == TimedeltaSplit(FTrunc(x), FMul(FFracPart(x), UsPerDay))

\* seconds of lo.q * 10^-3 * 2^-60 microseconds as a float
TotalSecondsOf(lo, hi) == FRound(hi.q, 0 - 60, lo.r # 0 \/ hi.r # 0)

TotalSeconds(lo) == TotalSecondsOf(lo, BDivRem(lo.q, 1000))

\* +-us microseconds in hours
HoursOf(neg, us) ==
    [neg |-> neg /\ us # <<>>,
     f   |-> FDivInt(TotalSeconds(BDivRem(BShl(us, 60), 1000)), 3600)]

\* (end_time - start_time).total_seconds() / 3600 as a signed float
DurationHours(start_time, end_time) ==
    LET whole == (end_time.days - start_time.days) * SecondsPerDay
                 + (end_time.seconds - start_time.seconds)
        micro == end_time.microseconds - start_time.microseconds
        \* sign, whole seconds and microseconds of the difference
        mag   == IF whole < 0 \/ (whole = 0 /\ micro < 0)
                 THEN [neg |-> TRUE,  w |-> (0 - whole) - (IF micro > 0 THEN 1 ELSE 0),
                       u |-> IF micro > 0 THEN MicrosPerSecond - micro ELSE 0 - micro]
                 ELSE [neg |-> FALSE, w |-> whole - (IF micro < 0 THEN 1 ELSE 0),
                       u |-> IF micro < 0 THEN MicrosPerSecond + micro ELSE micro]
    IN  HoursOf(mag.neg,
                BAdd(BMul(BFromInt(mag.w), BFromInt(MicrosPerSecond)), BFromInt(mag.u)))

(***************************************************************************)
(* generate_task_suggestions                                               *)
(***************************************************************************)
\* `if days_after:` is false for None and for 0
Truthy(v) == v # None /\ v[1] # 0

\* mutant: the default category is the first catalog key
ResolveEventTypeMeeting(type) ==
    IF type \in CategoryNames THEN type ELSE "meeting"

\* event_type = classification['type'], or 'appointment' when it is no catalog key
ResolveEventType(type) ==
    IF type \in CategoryNames THEN type ELSE "appointment"

\* mutant: the preparation time is not scaled by the complexity
TotalPrepDaysUnscaled(base_prep_days, complexity_multiplier) == base_prep_days

\* total_prep_days = int(base_prep_days * complexity_multiplier)
TotalPrepDays(base_prep_days, complexity_multiplier) ==
    FTrunc(FMul(FromInt(base_prep_days), complexity_multiplier))

\* mutants: no template is ever skipped; a template at the threshold is skipped
SkipTemplateNever(template_complexity, score) == FALSE

SkipTemplateAtThreshold(template_complexity, score) ==
    FLeq(FMul(template_complexity, score), Ratio(5, 10))

\* mutant: the threshold is 1.0
SkipTemplateBelowOne(template_complexity, score) ==
    FLess(FMul(template_complexity, score), FromInt(1))

\* `if template_complexity * complexity['score'] < 0.5: continue`
SkipTemplate(template_complexity, score) ==
    FLess(FMul(template_complexity, score), Ratio(5, 10))

\* mutant: a follow-up is counted from the start of the event
ScheduleFromStart(task_template, start_time, end_time, total_prep_days) ==
    IF Truthy(task_template.days_after)
    THEN [scheduled_time |-> DtAdd(start_time, TimedeltaDays(task_template.days_after[1])),
          relation       |-> "after"]
    ELSE [scheduled_time |->
              IF Truthy(task_template.days_before)
              THEN DtSub(start_time, TimedeltaDays(task_template.days_before[1]))
              ELSE DtSub(start_time,
                         TimedeltaDaysFloat(FMul(FromInt(total_prep_days),
                                                 Multiplier(task_template)))),
          relation       |-> "before"]

\* mutant: a template with days_before is scheduled at the start of the event
ScheduleAtStart(task_template, start_time, end_time, total_prep_days) ==
    IF Truthy(task_template.days_after)
    THEN [scheduled_time |-> DtAdd(end_time, TimedeltaDays(task_template.days_after[1])),
          relation       |-> "after"]
    ELSE [scheduled_time |->
              IF Truthy(task_template.days_before)
              THEN start_time
              ELSE DtSub(start_time,
                         TimedeltaDaysFloat(FMul(FromInt(total_prep_days),
                                                 Multiplier(task_template)))),
          relation       |-> "before"]

\* the scheduled time and relation of a template
Schedule(task_template, start_time, end_time, total_prep_days) ==
    IF Truthy(task_template.days_after)
    THEN [scheduled_time |-> DtAdd(end_time, TimedeltaDays(task_template.days_after[1])),
          relation       |-> "after"]
    ELSE [scheduled_time |->
              IF Truthy(task_template.days_before)
              THEN DtSub(start_time, TimedeltaDays(task_template.days_before[1]))
              ELSE DtSub(start_time,
                         TimedeltaDaysFloat(FMul(FromInt(total_prep_days),
                                                 Multiplier(task_template)))),
          relation       |-> "before"]

TaskConfidenceCap == 95

\* mutant: the boosted confidence is not capped again
BoostConfidenceUncapped(task_confidence, template_complexity, complexity_category) ==
    IF complexity_category = "high" /\ FLess(Ratio(8, 10), template_complexity)
    THEN FMul(task_confidence, Ratio(105, 100))
    ELSE IF complexity_category = "low" /\ FLess(template_complexity, Ratio(5, 10))
    THEN FMul(task_confidence, Ratio(105, 100))
    ELSE task_confidence

\* the adjustment of the confidence to the complexity match
BoostConfidence(task_confidence, template_complexity, complexity_category) ==
    IF complexity_category = "high" /\ FLess(Ratio(8, 10), template_complexity)
    THEN FMin(FMul(task_confidence, Ratio(105, 100)), FromInt(TaskConfidenceCap))
    ELSE IF complexity_category = "low" /\ FLess(template_complexity, Ratio(5, 10))
    THEN FMin(FMul(task_confidence, Ratio(105, 100)), FromInt(TaskConfidenceCap))
    ELSE task_confidence

\* the confidence of a suggestion, before int()
TaskConfidence(base_confidence, template_complexity, complexity_category) ==
    BoostConfidence(
        FMin(FMul(FMul(FDivInt(base_confidence, 100), template_complexity), FromInt(100)),
             FromInt(TaskConfidenceCap)),
        template_complexity, complexity_category)

\* the dict appended for a template that is not skipped
Suggestion(task_template, template_complexity, sched, title, cls, cpx, event_type) ==
    [description       |-> Format(task_template.template, title),
     scheduled_time    |-> sched.scheduled_time,
     relation          |-> sched.relation,
     confidence        |-> FTrunc(TaskConfidence(cls.confidence, template_complexity,
                                                 cpx.category)),
     category          |-> event_type,
     complexity_factor |-> template_complexity,
     analysis_notes    |-> "Based on " \o event_type \o " pattern with "
                           \o cpx.category \o " complexity"]

\* one pass of the loop body over a template; <<>> when it is skipped
SuggestionFor(task_template, ev, cls, cpx, event_type, total_prep_days) ==
    IF SkipTemplate(Multiplier(task_template), cpx.score) THEN <<>>
    ELSE << Suggestion(task_template, Multiplier(task_template),
                       Schedule(task_template, ev.start_time, ev.end_time, total_prep_days),
                       ev.title, cls, cpx, event_type) >>

\* list.sort(key=scheduled_time): stable, ascending
RECURSIVE InsertByTime(_, _)
InsertByTime(sorted, x) ==
    IF sorted = <<>> THEN <<x>>
    ELSE IF DtLess(x.scheduled_time, sorted[Len(sorted)].scheduled_time)
         THEN Append(InsertByTime(SubSeq(sorted, 1, Len(sorted) - 1), x),
                     sorted[Len(sorted)])
         ELSE Append(sorted, x)

\* mutant: the list is returned in the order it was appended
SortNothing(list) == list

RECURSIVE SortByScheduledTime(_)
SortByScheduledTime(list) ==
    IF list = <<>> THEN list
    ELSE InsertByTime(SortByScheduledTime(SubSeq(list, 1, Len(list) - 1)),
                      list[Len(list)])

RECURSIVE Concat(_)
Concat(ss) == IF ss = <<>> THEN <<>> ELSE ss[1] \o Concat(Tail(ss))

HighQuality == 70

\* the loop over the templates of the category, then the sort
SuggestionsOf(ev, cls, cpx, event_type, task_templates, total_prep_days) ==
    SortByScheduledTime(
        Concat([i \in 1..Len(task_templates) |->
                  SuggestionFor(task_templates[i], ev, cls, cpx, event_type,
                                total_prep_days)]))

\* the analysis_metadata dict built before the return
AnalysisMetadata(cls, cpx, sorted, total_prep_days) ==
    [event_classification  |-> cls,
     complexity_analysis   |-> cpx,
     total_tasks_generated |-> Len(sorted),
     preparation_days      |-> total_prep_days,
     suggestions_quality   |-> IF FLess(FromInt(HighQuality), cls.confidence)
                               THEN "high" ELSE "medium"]

\* total_prep_days of the category the classification resolves to
PreparationDays(cls, cpx) ==
    TotalPrepDays(EVENT_CATEGORIES[ResolveEventType(cls.type)].base_prep_days, cpx.score)

\* the returned list, from the results of the two analyzer calls
GenerateTaskSuggestions(ev, cls, cpx) ==
    SuggestionsOf(ev, cls, cpx, ResolveEventType(cls.type),
                  EVENT_CATEGORIES[ResolveEventType(cls.type)].tasks,
                  PreparationDays(cls, cpx))

(***************************************************************************)
(* The functions the module binds to the name classify_event_type.  The    *)
(* first definition (lines 450-469) hands the call to the analyzer; the    *)
(* second (lines 677-702) counts the keywords of EVENT_PATTERNS.  A module *)
(* that is loaded has run both def statements, and the name is bound to    *)
(* the second.                                                             *)
(***************************************************************************)
\* the first definition: event_analyzer.classify_event_type(title,
\* description)['type'], the location left at its default ""
ClassifyEventTypeFirstDef(title, description) ==
    ClassifyEventType(title, description, "").type

\* the 'keywords' lists of EVENT_PATTERNS, in the order of the dict
PatternTypes == <<"meeting", "presentation", "travel", "project", "workshop">>

EVENT_PATTERNS ==
    [t \in {PatternTypes[i] : i \in 1..Len(PatternTypes)} |->
        CASE t = "meeting"      ->
                Words(<<"meeting", "discussion", "sync", "standup", "conference", "call">>)
          [] t = "presentation" ->
                Words(<<"presentation", "demo", "pitch", "showcase", "review">>)
          [] t = "travel"       ->
                Words(<<"trip", "travel", "flight", "hotel", "visit", "conference">>)
          [] t = "project"      ->
                Words(<<"project", "deadline", "submission", "deliverable", "milestone">>)
          [] t = "workshop"     ->
                Words(<<"workshop", "training", "seminar", "tutorial", "learning">>)]

\* type_scores: one point for each keyword of the type contained in the text
TypeScores(text) ==
    [i \in 1..Len(PatternTypes) |-> CountIn(EVENT_PATTERNS[PatternTypes[i]], text)]

\* the first type with the highest score, or 'general' when no keyword matches
HighestType(type_scores) ==
    IF \E i \in 1..Len(type_scores) : type_scores[i] > 0
    THEN PatternTypes[MaxKey(type_scores, 2, 1)]
    ELSE "general"

\* the second definition, the one the name is bound to
classify_event_type(title, description) ==
    HighestType(TypeScores(Lower(Chars(title \o " " \o description))))

(***************************************************************************)
(* The events the engine is run on: every title of up to MaxTitleWords     *)
(* words of TitleWords on a plain one-hour event; a few titles with every  *)
(* description, location and duration of small sets; and the named         *)
(* scenario events.                                                        *)
(***************************************************************************)
MaxTitleWords == 2

TitleWords == {"Team", "exam", "quick", "Board", "party", "update", "meeting"}

Titles == {"", "Board meeting", "Final exam", "quick call", "Birthday party"}

Descriptions == {"", "major client review", "critical public launch"}

Locations == {"", "Airport", "Conference Center"}

\* event durations in seconds: -5 h, -1 h, zero, 1 h, 4 h, 5 h, 9 h
Durations == {0 - 5 * 3600, 0 - 3600, 0, 3600, 4 * 3600, 5 * 3600, 9 * 3600}

RECURSIVE Phrases(_, _)
Phrases(words, n) ==
    IF n = 0 THEN {""}
    ELSE LET shorter == Phrases(words, n - 1)
         IN  shorter \cup {IF p = "" THEN w ELSE p \o " " \o w :
                             p \in shorter, w \in words}

StartTime == [days |-> 20000, seconds |-> 9 * 3600, microseconds |-> 0]

EventOf(title, description, location, duration) ==
    [title       |-> title,
     description |-> description,
     location    |-> location,
     start_time  |-> StartTime,
     end_time    |-> Normalize(StartTime.days, StartTime.seconds + duration, 0)]

TitleEvents == {EventOf(t, "", "", 3600) : t \in Phrases(TitleWords, MaxTitleWords)}

ContextEvents ==
    {EventOf(t, d, l, h) :
        t \in Titles, d \in Descriptions, l \in Locations, h \in Durations}

ScenarioEvents ==
    { EventOf("Team weekly meeting", "Regular sync", "", 3600),
      EventOf("Final exam review", "comprehensive final", "", 3 * 3600),
      EventOf("Company holiday party", "", "", 4 * 3600),
      EventOf("xyzzy plugh", "", "", 3600),
      EventOf("", "", "", 0) }

\* short events whose text holds many high-priority and stakeholder keywords
KeywordEvents ==
    { EventOf("Board meeting", "critical important major client public review",
              "Conference Center", 3600),
      EventOf("Team group committee", "department update", "", 2 * 3600) }

Events == TitleEvents \cup ContextEvents \cup ScenarioEvents \cup KeywordEvents

(***************************************************************************)
(* The state machine: one event, and one call made on it.                  *)
(***************************************************************************)
Init ==
    /\ event \in Events
    /\ pc = "idle"
    /\ classification = None
    /\ complexity = None
    /\ suggested_tasks = None
    /\ analysis_metadata = None
    /\ returned_type = None
    /\ callersAtRest
    /\ apiAtRest
    /\ storeAtRest
    /\ statsAtRest

\* event_analyzer.classify_event_type(title, description, location)
ClassifyCall ==
    /\ pc = "idle"
    /\ classification' = ClassifyEventType(event.title, event.description, event.location)
    /\ pc' = "classified"
    /\ UNCHANGED <<event, complexity, suggested_tasks, analysis_metadata, returned_type>>
    /\ UNCHANGED outsideEngine

\* event_analyzer.analyze_event_complexity(title, description, location, duration_hours)
ComplexityCall ==
    /\ pc = "idle"
    /\ complexity' = AnalyzeEventComplexity(event.title, event.description, event.location,
                                            DurationHours(event.start_time, event.end_time))
    /\ pc' = "analyzed"
    /\ UNCHANGED <<event, classification, suggested_tasks, analysis_metadata, returned_type>>
    /\ UNCHANGED outsideEngine

\* generate_task_suggestions(event): the two analyzer calls, then the
\* template loop
GenerateCall ==
    /\ pc = "idle"
    /\ classification' = ClassifyEventType(event.title, event.description, event.location)
    /\ complexity' = AnalyzeEventComplexity(event.title, event.description, event.location,
                                            DurationHours(event.start_time, event.end_time))
    /\ suggested_tasks' = GenerateTaskSuggestions(event, classification', complexity')
    /\ analysis_metadata' =
          AnalysisMetadata(classification', complexity', suggested_tasks',
                           PreparationDays(classification', complexity'))
    /\ pc' = "generated"
    /\ UNCHANGED <<event, returned_type>>
    /\ UNCHANGED outsideEngine

\* classify_event_type(event.title, event.description), by the name the
\* module binds once it is loaded
ModuleClassifyCall ==
    /\ pc = "idle"
    /\ returned_type' = classify_event_type(event.title, event.description)
    /\ pc' = "named"
    /\ UNCHANGED <<event, classification, complexity, suggested_tasks, analysis_metadata>>
    /\ UNCHANGED outsideEngine

Next == ClassifyCall \/ ComplexityCall \/ GenerateCall \/ ModuleClassifyCall

Spec == Init /\ [][Next]_vars

(***************************************************************************)
(* Concurrent callers.  Each caller runs generate_task_suggestions on its  *)
(* own event, one statement group at a time, and then once more on the     *)
(* same event; the steps of the callers interleave freely.  calls[c] holds *)
(* the locals of caller c's running call; shared holds what every call     *)
(* reads: the EVENT_CATEGORIES class attribute and the module-level         *)
(* event_analyzer instance, which has no attributes of its own.            *)
(***************************************************************************)
Callers == {1, 2}

CallEvents ==
    { EventOf("Final exam review", "comprehensive final", "", 3 * 3600),
      EventOf("Company holiday party", "", "", 4 * 3600),
      EventOf("Board meeting", "major client review", "Conference Center", 5 * 3600) }

\* class EventAnalyzer and `event_analyzer = EventAnalyzer()`
SharedObjects ==
    [EVENT_CATEGORIES |-> EVENT_CATEGORIES, event_analyzer |-> <<>>]

\* the frame of a call that has not run a statement yet
NewCall(ev) ==
    [event           |-> ev,
     pc              |-> "idle",
     again           |-> FALSE,
     overlapped      |-> FALSE,
     classification  |-> None,
     complexity      |-> None,
     event_type      |-> "",
     total_prep_days |-> 0,
     i               |-> 0,
     suggested_tasks |-> <<>>,
     returned        |-> <<>>,
     previous        |-> <<>>]

\* a call is running from its first statement to its return
Running(call) == call.pc \notin {"idle", "done"}

\* caller c has taken a step: it overlaps the running call of another caller
Mark(all_calls, c) ==
    [all_calls EXCEPT ![c].overlapped =
        @ \/ \E d \in Callers \ {c} : Running(all_calls[d])]

\* lines 486-497: the event's fields are read and the event is classified
ClassifyStep(call) ==
    [call EXCEPT !.classification =
                     ClassifyEventType(call.event.title, call.event.description,
                                       call.event.location),
                 !.pc = "classified"]

\* line 498
AnalyzeStep(call) ==
    [call EXCEPT !.complexity =
                     AnalyzeEventComplexity(call.event.title, call.event.description,
                                            call.event.location,
                                            DurationHours(call.event.start_time,
                                                          call.event.end_time)),
                 !.pc = "analyzed"]

\* mutant: suggested_tasks is not a fresh list of the call
ResolveStepKeepList(call, categories) ==
    [call EXCEPT !.event_type = ResolveEventType(call.classification.type),
                 !.total_prep_days =
                     TotalPrepDays(
                         categories[ResolveEventType(call.classification.type)]
                             .base_prep_days,
                         call.complexity.score),
                 !.i = 1,
                 !.pc = "loop"]

\* lines 501-514: the category, the preparation days and the empty list
ResolveStep(call, categories) ==
    [call EXCEPT !.event_type = ResolveEventType(call.classification.type),
                 !.total_prep_days =
                     TotalPrepDays(
                         categories[ResolveEventType(call.classification.type)]
                             .base_prep_days,
                         call.complexity.score),
                 !.suggested_tasks = <<>>,
                 !.i = 1,
                 !.pc = "loop"]

\* the templates the loop of a call runs over
TaskTemplates(call, categories) == categories[call.event_type].tasks

\* mutant: every caller appends to one list
AppendToEvery(all_calls, c, suggestion) ==
    [d \in Callers |->
        [all_calls[d] EXCEPT !.suggested_tasks = @ \o suggestion,
                             !.i = IF d = c THEN @ + 1 ELSE @]]

\* lines 516-568: one template is skipped or its suggestion appended
AppendSuggestion(all_calls, c, suggestion) ==
    [all_calls EXCEPT ![c] = [@ EXCEPT !.suggested_tasks = @ \o suggestion,
                                       !.i = @ + 1]]

\* line 571
SortStep(call) ==
    [call EXCEPT !.suggested_tasks = SortByScheduledTime(@), !.pc = "sorted"]

\* lines 574-586
ReturnStep(call) ==
    [call EXCEPT !.returned = call.suggested_tasks, !.pc = "done"]

\* the caller keeps the returned list and calls again on the same event
AgainStep(call) ==
    [call EXCEPT !.previous = call.returned, !.again = TRUE,
                 !.overlapped = FALSE, !.pc = "idle"]

InitCalls ==
    /\ engineAtRest
    /\ apiAtRest
    /\ storeAtRest
    /\ statsAtRest
    /\ shared = SharedObjects
    /\ calls \in {[c \in Callers |-> NewCall(evs[c])] :
                    evs \in {f \in [Callers -> CallEvents] : f[1] # f[2]}}

CallClassify(c) ==
    /\ calls[c].pc = "idle"
    /\ calls' = Mark([calls EXCEPT ![c] = ClassifyStep(@)], c)
    /\ UNCHANGED <<shared, outsideCallers>>

CallAnalyze(c) ==
    /\ calls[c].pc = "classified"
    /\ calls' = Mark([calls EXCEPT ![c] = AnalyzeStep(@)], c)
    /\ UNCHANGED <<shared, outsideCallers>>

CallResolve(c) ==
    /\ calls[c].pc = "analyzed"
    /\ calls' = Mark([calls EXCEPT ![c] = ResolveStep(@, shared.EVENT_CATEGORIES)], c)
    /\ UNCHANGED <<shared, outsideCallers>>

CallLoop(c) ==
    /\ calls[c].pc = "loop"
    /\ calls[c].i <= Len(TaskTemplates(calls[c], shared.EVENT_CATEGORIES))
    /\ calls' = Mark(AppendSuggestion(calls, c,
                         SuggestionFor(
                             TaskTemplates(calls[c], shared.EVENT_CATEGORIES)[calls[c].i],
                             calls[c].event, calls[c].classification,
                             calls[c].complexity, calls[c].event_type,
                             calls[c].total_prep_days)), c)
    /\ UNCHANGED <<shared, outsideCallers>>

CallSort(c) ==
    /\ calls[c].pc = "loop"
    /\ calls[c].i > Len(TaskTemplates(calls[c], shared.EVENT_CATEGORIES))
    /\ calls' = Mark([calls EXCEPT ![c] = SortStep(@)], c)
    /\ UNCHANGED <<shared, outsideCallers>>

CallReturn(c) ==
    /\ calls[c].pc = "sorted"
    /\ calls' = Mark([calls EXCEPT ![c] = ReturnStep(@)], c)
    /\ UNCHANGED <<shared, outsideCallers>>

CallAgain(c) ==
    /\ calls[c].pc = "done"
    /\ ~calls[c].again
    /\ calls' = [calls EXCEPT ![c] = AgainStep(@)]
    /\ UNCHANGED <<shared, outsideCallers>>

NextCalls ==
    \E c \in Callers :
        \/ CallClassify(c)
        \/ CallAnalyze(c)
        \/ CallResolve(c)
        \/ CallLoop(c)
        \/ CallSort(c)
        \/ CallReturn(c)
        \/ CallAgain(c)

SpecCalls == InitCalls /\ [][NextCalls]_vars

(***************************************************************************)
(* The REST action EventViewSet.create_suggested_tasks.  task_rows is the  *)
(* Task table in creation order (the position of a row is its id), request *)
(* and response are the last request served and its response, feedback is  *)
(* the list of the feedback the handler has processed.                     *)
(***************************************************************************)
MaxTaskRows == 3

Users == {"ana", "ben"}

\* the Event table: primary key -> owner
EventOwners == [pk \in {1, 2} |-> IF pk = 1 THEN "ana" ELSE "ben"]

\* primary keys a request may address; 3 is no event
EventKeys == {1, 2, 3}

SuggestionA ==
    [description    |-> "Prepare agenda for Board meeting",
     scheduled_time |-> "2025-03-02T09:00:00Z",
     relation       |-> "before",
     confidence     |-> 95,
     category       |-> "meeting"]

SuggestionB ==
    [description    |-> "Send follow-up notes from Board meeting",
     scheduled_time |-> "2025-03-04T10:00:00Z",
     relation       |-> "after",
     confidence     |-> 47,
     category       |-> "meeting"]

SuggestionLists ==
    {<<>>, <<SuggestionA>>, <<SuggestionB, SuggestionA>>, <<SuggestionB, SuggestionB>>}

\* request bodies: each of the two keys may be missing
RequestBodies ==
    {sel @@ rej :
        sel \in {<<>>} \cup {"selected_suggestions" :> l : l \in SuggestionLists},
        rej \in {<<>>, "rejected_suggestions" :> <<SuggestionB>>}}

\* dict.get(key, default)
Get(data, key, default) == IF key \in DOMAIN data THEN data[key] ELSE default

\* mutant: the created task is not attached to the event
TaskWithoutEvent(suggestion, user, pk) ==
    [description    |-> suggestion.description,
     scheduled_time |-> suggestion.scheduled_time,
     owner          |-> user,
     event          |-> None,
     completed      |-> FALSE,
     completed_at   |-> None]

\* Task.objects.create(...) of lines 423-429
TaskFromSuggestion(suggestion, user, pk) ==
    [description    |-> suggestion.description,
     scheduled_time |-> suggestion.scheduled_time,
     owner          |-> user,
     event          |-> <<pk>>,
     completed      |-> FALSE,
     completed_at   |-> None]

\* the loop of lines 422-430
CreatedTasks(selected_suggestions, user, pk) ==
    [k \in 1..Len(selected_suggestions) |->
        TaskFromSuggestion(selected_suggestions[k], user, pk)]

\* TaskSerializer(created_tasks, many=True).data, without the timestamps
SerializedTasks(created_tasks, first_id) ==
    [k \in 1..Len(created_tasks) |->
        [id             |-> first_id + k - 1,
         description    |-> created_tasks[k].description,
         scheduled_time |-> created_tasks[k].scheduled_time,
         completed      |-> created_tasks[k].completed,
         completed_at   |-> created_tasks[k].completed_at,
         event          |-> created_tasks[k].event]]

\* get_object(): the event is looked up among the events of the user
Found(user, pk) == pk \in DOMAIN EventOwners /\ EventOwners[pk] = user

HTTP_201_CREATED == 201
HTTP_400_BAD_REQUEST == 400
HTTP_404_NOT_FOUND == 404
HTTP_200_OK == 200
HTTP_302_FOUND == 302

InitApi ==
    /\ engineAtRest
    /\ callersAtRest
    /\ apiAtRest
    /\ storeAtRest
    /\ statsAtRest

\* the event is not in the queryset of the user
NotFound(user, pk, data) ==
    /\ ~Found(user, pk)
    /\ request' = [user |-> user, pk |-> pk, data |-> data]
    /\ response' = [status |-> HTTP_404_NOT_FOUND, data |-> <<>>]
    /\ UNCHANGED <<task_rows, feedback>>
    /\ UNCHANGED <<event_rows, outsideApi>>

\* `if not selected_suggestions`
NoneSelected(user, pk, data) ==
    /\ Found(user, pk)
    /\ Get(data, "selected_suggestions", <<>>) = <<>>
    /\ request' = [user |-> user, pk |-> pk, data |-> data]
    /\ response' = [status |-> HTTP_400_BAD_REQUEST,
                    data   |-> [error |-> "No suggestions selected"]]
    /\ UNCHANGED <<task_rows, feedback>>
    /\ UNCHANGED <<event_rows, outsideApi>>

\* the tasks are created, the feedback processed, the tasks returned
TasksCreated(user, pk, data) ==
    /\ Found(user, pk)
    /\ Get(data, "selected_suggestions", <<>>) # <<>>
    /\ Len(task_rows) + Len(data.selected_suggestions) <= MaxTaskRows
    /\ request' = [user |-> user, pk |-> pk, data |-> data]
    /\ task_rows' = task_rows \o CreatedTasks(data.selected_suggestions, user, pk)
    /\ feedback' = Append(feedback,
                          [accepted_tasks |-> Get(data, "selected_suggestions", <<>>),
                           rejected_tasks |-> Get(data, "rejected_suggestions", <<>>),
                           event          |-> pk])
    /\ response' = [status |-> HTTP_201_CREATED,
                    data   |-> SerializedTasks(
                                   CreatedTasks(data.selected_suggestions, user, pk),
                                   Len(task_rows) + 1)]
    /\ UNCHANGED <<event_rows, outsideApi>>

\* a request to create_suggested_tasks is served
NextApi ==
    \E user \in Users, pk \in EventKeys, data \in RequestBodies :
        \/ NotFound(user, pk, data)
        \/ NoneSelected(user, pk, data)
        \/ TasksCreated(user, pk, data)

SpecApi == InitApi /\ [][NextApi]_vars

(***************************************************************************)
(* Events written through the REST serializers and the frontend views.     *)
(* event_rows is the Event table in creation order (the position of a row  *)
(* is its id); a datetime is an instant, a whole number of hours.          *)
(***************************************************************************)
MaxEventRows == 2

\* three instants: enough for every order of a stored start, a stored end
\* and the start or end of a request
Times == {1, 2, 3}

EventTitle == "Standup"

\* a datetime field of a request: absent from the body, text that is no
\* datetime, a datetime without an offset, or one with an offset
Absent == [kind |-> "absent", t |-> 0]

Invalid == [kind |-> "invalid", t |-> 0]

Naive(t) == [kind |-> "naive", t |-> t]

Aware(t) == [kind |-> "aware", t |-> t]

\* JSON bodies of the REST API and form posts of the frontend
RestTimeFields == {Absent, Invalid} \cup {Aware(t) : t \in Times}

FormTimeFields == {Absent, Invalid} \cup {Naive(t) : t \in Times} \cup {Aware(t) : t \in Times}

\* a title of "" stands for a body without a title
Bodies(time_fields) ==
    [title : {"", EventTitle}, start_time : time_fields, end_time : time_fields]

\* the fields of a body that rest_framework hands to validate(): the ones present
Present(field) == field.kind # "absent"

\* a DateTimeField of the serializer accepts the field
ValidField(field) == field.kind = "aware"

\* EventCreateSerializer.validate
CreateValidate(data) == ~(data.end_time.t <= data.start_time.t)

\* mutant: an update of end_time alone is not compared with the stored start
UpdateValidateBothOnly(data, instance) ==
    IF Present(data.start_time) /\ Present(data.end_time)
    THEN ~(data.end_time.t <= data.start_time.t)
    ELSE TRUE

\* EventUpdateSerializer.validate
UpdateValidate(data, instance) ==
    IF Present(data.start_time) /\ Present(data.end_time)
    THEN ~(data.end_time.t <= data.start_time.t)
    ELSE IF Present(data.end_time) /\ ~Present(data.start_time)
    THEN ~(data.end_time.t <= instance.start_time)
    ELSE IF Present(data.start_time) /\ ~Present(data.end_time)
    THEN ~(instance.end_time <= data.start_time.t)
    ELSE TRUE

\* ModelSerializer.update: the fields present overwrite the instance
Updated(instance, data) ==
    [instance EXCEPT
        !.title      = IF data.title # "" THEN data.title ELSE @,
        !.start_time = IF Present(data.start_time) THEN data.start_time.t ELSE @,
        !.end_time   = IF Present(data.end_time) THEN data.end_time.t ELSE @]

\* the fields of the body that are present pass field validation
FieldsValid(data) ==
    /\ Present(data.start_time) => ValidField(data.start_time)
    /\ Present(data.end_time) => ValidField(data.end_time)

\* the required fields of the serializers are present
AllPresent(data) ==
    data.title # "" /\ Present(data.start_time) /\ Present(data.end_time)

\* the event pk is in the queryset of the user
Owns(user, pk) == pk \in 1..Len(event_rows) /\ event_rows[pk].owner = user

EventRow(title, start_time, end_time, owner) ==
    [title |-> title, start_time |-> start_time, end_time |-> end_time, owner |-> owner]

\* `if not all([title, start_time, end_time])`
FormComplete(post) ==
    post.title # "" /\ Present(post.start_time) /\ Present(post.end_time)

\* datetime.fromisoformat raises ValueError
ParseFails(post) ==
    post.start_time.kind = "invalid" \/ post.end_time.kind = "invalid"

\* comparing a datetime with an offset and one without raises TypeError
CompareFails(post) == post.start_time.kind # post.end_time.kind

\* the form passes the checks of event_create and event_edit
FormAccepted(post) ==
    /\ FormComplete(post)
    /\ ~ParseFails(post)
    /\ ~CompareFails(post)
    /\ ~(post.end_time.t <= post.start_time.t)

\* the response of a handler to a request of a user
Answer(handler, user, status) ==
    [handler |-> handler, user |-> user, status |-> status]

InitEvents ==
    /\ engineAtRest
    /\ callersAtRest
    /\ apiAtRest
    /\ storeAtRest
    /\ statsAtRest

\* POST /events/ : EventCreateSerializer, perform_create
RestCreate(user, data) ==
    /\ IF AllPresent(data) /\ FieldsValid(data) /\ CreateValidate(data)
       THEN /\ Len(event_rows) < MaxEventRows
            /\ event_rows' = Append(event_rows,
                                    EventRow(data.title, data.start_time.t,
                                             data.end_time.t, user))
            /\ response' = Answer("create", user, HTTP_201_CREATED)
       ELSE /\ response' = Answer("create", user, HTTP_400_BAD_REQUEST)
            /\ UNCHANGED event_rows
    /\ UNCHANGED <<task_rows, request, feedback, outsideApi>>

\* PUT /events/pk/ : EventUpdateSerializer with every required field
RestUpdate(user, pk, data) ==
    /\ IF ~Owns(user, pk)
       THEN /\ response' = Answer("update", user, HTTP_404_NOT_FOUND)
            /\ UNCHANGED event_rows
       ELSE IF AllPresent(data) /\ FieldsValid(data)
               /\ UpdateValidate(data, event_rows[pk])
       THEN /\ event_rows' = [event_rows EXCEPT ![pk] = Updated(@, data)]
            /\ response' = Answer("update", user, HTTP_200_OK)
       ELSE /\ response' = Answer("update", user, HTTP_400_BAD_REQUEST)
            /\ UNCHANGED event_rows
    /\ UNCHANGED <<task_rows, request, feedback, outsideApi>>

\* PATCH /events/pk/ : EventUpdateSerializer with partial=True
RestPartialUpdate(user, pk, data) ==
    /\ IF ~Owns(user, pk)
       THEN /\ response' = Answer("partial_update", user, HTTP_404_NOT_FOUND)
            /\ UNCHANGED event_rows
       ELSE IF FieldsValid(data) /\ UpdateValidate(data, event_rows[pk])
       THEN /\ event_rows' = [event_rows EXCEPT ![pk] = Updated(@, data)]
            /\ response' = Answer("partial_update", user, HTTP_200_OK)
       ELSE /\ response' = Answer("partial_update", user, HTTP_400_BAD_REQUEST)
            /\ UNCHANGED event_rows
    /\ UNCHANGED <<task_rows, request, feedback, outsideApi>>

\* the frontend view event_create, POST
FormCreate(user, post) ==
    /\ IF FormAccepted(post)
       THEN /\ Len(event_rows) < MaxEventRows
            /\ event_rows' = Append(event_rows,
                                    EventRow(post.title, post.start_time.t,
                                             post.end_time.t, user))
            /\ response' = Answer("event_create", user, HTTP_302_FOUND)
       ELSE /\ response' = Answer("event_create", user, HTTP_200_OK)
            /\ UNCHANGED event_rows
    /\ UNCHANGED <<task_rows, request, feedback, outsideApi>>

\* the frontend view event_edit, POST
FormEdit(user, pk, post) ==
    /\ IF ~Owns(user, pk)
       THEN /\ response' = Answer("event_edit", user, HTTP_404_NOT_FOUND)
            /\ UNCHANGED event_rows
       ELSE IF FormAccepted(post)
       THEN /\ event_rows' = [event_rows EXCEPT
                                 ![pk] = EventRow(post.title, post.start_time.t,
                                                  post.end_time.t, @.owner)]
            /\ response' = Answer("event_edit", user, HTTP_302_FOUND)
       ELSE /\ response' = Answer("event_edit", user, HTTP_200_OK)
            /\ UNCHANGED event_rows
    /\ UNCHANGED <<task_rows, request, feedback, outsideApi>>

NextEvents ==
    \E user \in Users :
        \/ \E data \in Bodies(RestTimeFields) :
              \/ RestCreate(user, data)
              \/ \E pk \in 1..MaxEventRows : RestUpdate(user, pk, data)
              \/ \E pk \in 1..MaxEventRows : RestPartialUpdate(user, pk, data)
        \/ \E post \in Bodies(FormTimeFields) :
              \/ FormCreate(user, post)
              \/ \E pk \in 1..MaxEventRows : FormEdit(user, pk, post)

SpecEvents == InitEvents /\ [][NextEvents]_vars

(***************************************************************************)
(* The statistics models: a StreakTracking record, a UserStatistics record *)
(* with its XPLog entries and AchievementBadge rows, and a UserGoals       *)
(* record of the same user.  Each variable holds the fields of the object  *)
(* the methods are called on, as the method leaves them when it saves.     *)
(***************************************************************************)
MaxStreak == 3

MaxXpLog == 3

MaxProgress == 4

\* points of add_xp and remove_xp calls, and the reason given
XpPoints == {0, 100, 400}

RemovedPoints == {30, 500}

Reason == "Test XP"

\* increments of update_progress calls
Increments == {0 - 1, 0, 1, 2}

GoalTitle == "Test Goal"

TargetValue == 3

RewardXp == 100

Today == <<20000>>

\* 1.5 ** n
RECURSIVE FPow(_, _)
FPow(x, n) == IF n = 0 THEN FromInt(1) ELSE FMul(FPow(x, n - 1), x)

\* int(100 * (1.5 ** (self.current_level - 1)))
XpToNextLevel(current_level) ==
    FTrunc(FMul(FromInt(100), FPow(Ratio(15, 10), current_level - 1)))

\* mutant: a single level-up per call
CheckLevelUpOnce(stats) ==
    IF stats.total_xp >= stats.xp_to_next_level
    THEN [stats EXCEPT !.current_level = @ + 1,
                       !.xp_to_next_level = XpToNextLevel(stats.current_level + 1)]
    ELSE stats

\* UserStatistics._check_level_up: the fields after the while loop
RECURSIVE CheckLevelUp(_)
CheckLevelUp(stats) ==
    IF stats.total_xp >= stats.xp_to_next_level
    THEN CheckLevelUp([stats EXCEPT
                          !.current_level = @ + 1,
                          !.xp_to_next_level = XpToNextLevel(stats.current_level + 1)])
    ELSE stats

\* the level badges get_or_create makes sure of while the level rises
LevelBadges(old_level, new_level) ==
    {[badge_type |-> "level", title |-> "Level " \o ToString(l) \o " Achieved!"] :
        l \in (old_level + 1)..new_level}

\* an XPLog row
XPLogEntry(points_earned, reason) ==
    [points_earned |-> points_earned, reason |-> reason]

\* the fields of self after add_xp
AddXpFields(stats, points) ==
    CheckLevelUp([stats EXCEPT !.total_xp = @ + points])

\* the fields of self after remove_xp
RemoveXpFields(stats, points) ==
    [stats EXCEPT !.total_xp = IF @ - points > 0 THEN @ - points ELSE 0]

\* mutant: the best count follows the current count down
BreakStreakFieldsAll(s) ==
    [s EXCEPT !.current_count = 0, !.best_count = 0]

\* the fields of self after break_streak
BreakStreakFields(s) ==
    [s EXCEPT !.current_count = 0]

\* the fields of self after increment_streak
IncrementStreakFields(s) ==
    [s EXCEPT !.current_count = @ + 1,
              !.best_count = IF s.current_count + 1 > @ THEN s.current_count + 1 ELSE @]

\* mutant: reaching the target does not complete the goal
MarkCompletedNever(g) == g

\* the fields of self after mark_completed
MarkCompleted(g) ==
    [g EXCEPT !.status = "completed", !.completed_date = Today]

\* the goal reaches its target with this increment
ReachesTarget(g, increment) ==
    g.current_progress + increment >= g.target_value

\* the fields of self after update_progress
UpdateProgressFields(g, increment) ==
    IF ReachesTarget(g, increment)
    THEN MarkCompleted([g EXCEPT !.current_progress = @ + increment])
    ELSE [g EXCEPT !.current_progress = @ + increment]

\* the records as their models' defaults create them
InitStats ==
    /\ engineAtRest
    /\ callersAtRest
    /\ apiAtRest
    /\ storeAtRest
    /\ streak = [current_count |-> 0, best_count |-> 0]
    /\ largest_count = 0
    /\ user_stats = [total_xp |-> 0, current_level |-> 1, xp_to_next_level |-> 100]
    /\ xp_log = <<>>
    /\ badges = {}
    /\ goal = [current_progress |-> 0,
               target_value     |-> TargetValue,
               status           |-> "active",
               completed_date   |-> None,
               reward_xp        |-> RewardXp]

\* StreakTracking.increment_streak; the record has no milestone rewards
IncrementStreak ==
    /\ streak.current_count < MaxStreak
    /\ streak' = IncrementStreakFields(streak)
    /\ largest_count' = IF streak'.current_count > largest_count
                        THEN streak'.current_count ELSE largest_count
    /\ UNCHANGED <<user_stats, xp_log, badges, goal, outsideStats>>

\* StreakTracking.break_streak
BreakStreak ==
    /\ streak' = BreakStreakFields(streak)
    /\ UNCHANGED <<largest_count, user_stats, xp_log, badges, goal, outsideStats>>

\* UserStatistics.add_xp(points, reason)
AddXp(points, reason) ==
    /\ Len(xp_log) < MaxXpLog
    /\ user_stats' = AddXpFields(user_stats, points)
    /\ badges' = badges \cup LevelBadges(user_stats.current_level,
                                         user_stats'.current_level)
    /\ xp_log' = Append(xp_log, XPLogEntry(points, reason))
    /\ UNCHANGED <<streak, largest_count, goal, outsideStats>>

\* UserStatistics.remove_xp(points, reason)
RemoveXp(points, reason) ==
    /\ Len(xp_log) < MaxXpLog
    /\ user_stats' = RemoveXpFields(user_stats, points)
    /\ xp_log' = Append(xp_log, XPLogEntry(0 - points, "Removed: " \o reason))
    /\ UNCHANGED <<streak, largest_count, badges, goal, outsideStats>>

\* UserGoals.update_progress(increment), with mark_completed when the target
\* is reached: the XP reward goes through add_xp of the owner's statistics
UpdateProgress(increment) ==
    /\ goal.current_progress + increment \in 0..MaxProgress
    /\ goal' = UpdateProgressFields(goal, increment)
    /\ IF ReachesTarget(goal, increment)
       THEN /\ Len(xp_log) < MaxXpLog
            /\ user_stats' = AddXpFields(user_stats, goal.reward_xp)
            /\ xp_log' = Append(xp_log,
                                XPLogEntry(goal.reward_xp,
                                           "Goal completed: " \o GoalTitle))
            /\ badges' = badges
                         \cup LevelBadges(user_stats.current_level,
                                          user_stats'.current_level)
                         \cup {[badge_type |-> "goal_getter",
                                title      |-> "Goal Achieved: " \o GoalTitle]}
       ELSE UNCHANGED <<user_stats, xp_log, badges>>
    /\ UNCHANGED <<streak, largest_count, outsideStats>>

NextStats ==
    \/ IncrementStreak
    \/ BreakStreak
    \/ \E points \in XpPoints : AddXp(points, Reason)
    \/ \E points \in RemovedPoints : RemoveXp(points, Reason)
    \/ \E increment \in Increments : UpdateProgress(increment)

SpecStats == InitStats /\ [][NextStats]_vars

(***************************************************************************)
(* Task operations: creation through TaskSerializer, updates through       *)
(* TaskUpdateSerializer, the model methods mark_as_completed and           *)
(* mark_as_incomplete, and the frontend views task_toggle and              *)
(* ajax_task_toggle, all by the owner of the tasks.  task_rows is the Task *)
(* table; the position of a row is its id.                                 *)
(***************************************************************************)
MaxTasks == 3

TaskOwner == "ana"

Descriptions2 == {"Buy milk", "Call the bank"}

ScheduledTime == "2025-03-02T09:00:00Z"

\* timezone.now()
Now == <<20001>>

\* request bodies: description and completed may each be missing
TaskBodies ==
    {d @@ c :
        d \in {<<>>} \cup {"description" :> text : text \in Descriptions2},
        c \in {<<>>} \cup {"completed" :> b : b \in BOOLEAN}}

\* TaskSerializer.create: Task.objects.create(owner=user, **validated_data)
CreatedTask(user, validated_data) ==
    [description    |-> validated_data.description,
     scheduled_time |-> ScheduledTime,
     owner          |-> user,
     event          |-> None,
     completed      |-> Get(validated_data, "completed", FALSE),
     completed_at   |-> None]

\* ModelSerializer.update: the validated fields are set on the instance
FieldsSet(instance, validated_data) ==
    [instance EXCEPT
        !.description = Get(validated_data, "description", @),
        !.completed   = Get(validated_data, "completed", @)]

\* TaskUpdateSerializer.update
UpdatedTask(instance, validated_data) ==
    IF Get(validated_data, "completed", instance.completed) /\ ~instance.completed
    THEN [FieldsSet(instance, validated_data) EXCEPT !.completed_at = Now]
    ELSE IF ~Get(validated_data, "completed", instance.completed) /\ instance.completed
    THEN [FieldsSet(instance, validated_data) EXCEPT !.completed_at = None]
    ELSE FieldsSet(instance, validated_data)

\* Task.mark_as_completed
MarkedCompleted(instance) ==
    [instance EXCEPT !.completed = TRUE, !.completed_at = Now]

\* Task.mark_as_incomplete
MarkedIncomplete(instance) ==
    [instance EXCEPT !.completed = FALSE, !.completed_at = None]

\* `task.completed = not task.completed` of task_toggle and ajax_task_toggle
Toggled(instance) ==
    [instance EXCEPT !.completed = ~@]

InitTasks ==
    /\ engineAtRest
    /\ callersAtRest
    /\ apiAtRest
    /\ storeAtRest
    /\ statsAtRest

\* POST /tasks/ : a body without description is turned down
CreateTask(data) ==
    /\ Len(task_rows) < MaxTasks
    /\ "description" \in DOMAIN data
    /\ task_rows' = Append(task_rows, CreatedTask(TaskOwner, data))
    /\ UNCHANGED <<request, response, feedback, event_rows, outsideApi>>

\* PUT or PATCH /tasks/pk/
UpdateTask(pk, data) ==
    /\ pk \in 1..Len(task_rows)
    /\ task_rows' = [task_rows EXCEPT ![pk] = UpdatedTask(@, data)]
    /\ UNCHANGED <<request, response, feedback, event_rows, outsideApi>>

\* POST /tasks/pk/complete/
MarkAsCompleted(pk) ==
    /\ pk \in 1..Len(task_rows)
    /\ task_rows' = [task_rows EXCEPT ![pk] = MarkedCompleted(@)]
    /\ UNCHANGED <<request, response, feedback, event_rows, outsideApi>>

\* POST /tasks/pk/incomplete/
MarkAsIncomplete(pk) ==
    /\ pk \in 1..Len(task_rows)
    /\ task_rows' = [task_rows EXCEPT ![pk] = MarkedIncomplete(@)]
    /\ UNCHANGED <<request, response, feedback, event_rows, outsideApi>>

\* the frontend view task_toggle
TaskToggle(pk) ==
    /\ pk \in 1..Len(task_rows)
    /\ task_rows' = [task_rows EXCEPT ![pk] = Toggled(@)]
    /\ UNCHANGED <<request, response, feedback, event_rows, outsideApi>>

\* the frontend view ajax_task_toggle
AjaxTaskToggle(pk) ==
    /\ pk \in 1..Len(task_rows)
    /\ task_rows' = [task_rows EXCEPT ![pk] = Toggled(@)]
    /\ UNCHANGED <<request, response, feedback, event_rows, outsideApi>>

NextTasks ==
    \/ \E data \in TaskBodies : CreateTask(data)
    \/ \E pk \in 1..MaxTasks, data \in TaskBodies : UpdateTask(pk, data)
    \/ \E pk \in 1..MaxTasks :
          \/ MarkAsCompleted(pk)
          \/ MarkAsIncomplete(pk)
          \/ TaskToggle(pk)
          \/ AjaxTaskToggle(pk)

SpecTasks == InitTasks /\ [][NextTasks]_vars

(***************************************************************************)
(* Properties                                                              *)
(***************************************************************************)
Generated == pc = "generated"

\* the category whose templates a finished generate_task_suggestions call used
UsedCategory == ResolveEventType(analysis_metadata.event_classification.type)

UsedTemplates == EVENT_CATEGORIES[UsedCategory].tasks

\* the rendered descriptions of the used templates, in catalog order
RECURSIVE Rendered(_, _, _)
Rendered(tasks, title, i) ==
    IF i > Len(tasks) THEN <<>>
    ELSE <<Format(tasks[i].template, title)>> \o Rendered(tasks, title, i + 1)

\* the catalog position of the template each returned suggestion came from
RECURSIVE TemplateIndexes(_, _, _)
TemplateIndexes(list, rendered, i) ==
    IF i > Len(list) THEN <<>>
    ELSE <<CHOOSE k \in 1..Len(rendered) : rendered[k] = list[i].description>>
         \o TemplateIndexes(list, rendered, i + 1)

\* x * y < 1/2 in exact arithmetic on the two float values
ProductBelowHalf(x, y) == BBits(BMul(x.m, y.m)) <= 0 - (x.e + y.e + 1)

DurationSeconds(ev) ==
    (ev.end_time.days - ev.start_time.days) * SecondsPerDay
    + (ev.end_time.seconds - ev.start_time.seconds)

NoScore(all_scores) == \A c \in DOMAIN all_scores : all_scores[c] = 0

\* C1: every suggestion generate_task_suggestions returns has an integer
\* confidence with 0 <= confidence <= 95.
C1_SuggestionConfidenceRange ==
    Generated =>
        \A i \in 1..Len(suggested_tasks) : suggested_tasks[i].confidence \in 0..95

\* C1 witness: a returned suggestion sits at the ceiling although the
\* classification confidence times its multiplier (> 1) lies above it.
C1_Witness ==
    /\ Generated
    /\ \E i \in 1..Len(suggested_tasks) :
          /\ suggested_tasks[i].confidence = 95
          /\ FLess(FromInt(1), suggested_tasks[i].complexity_factor)
          /\ analysis_metadata.complexity_analysis.category = "high"

\* C2: the returned list is non-decreasing in scheduled_time, and
\* suggestions with equal scheduled_time keep their catalog template order.
C2_SortedStable ==
    Generated =>
        LET idx == TemplateIndexes(suggested_tasks,
                                   Rendered(UsedTemplates, event.title, 1), 1)
        IN  \A i \in 1..Len(suggested_tasks) : \A j \in (i + 1)..Len(suggested_tasks) :
               /\ DtLeq(suggested_tasks[i].scheduled_time, suggested_tasks[j].scheduled_time)
               /\ suggested_tasks[i].scheduled_time = suggested_tasks[j].scheduled_time
                     => idx[i] < idx[j]

\* C2 witness: a returned list with two equal scheduled times in which the
\* sort moved a later template in front of an earlier one.
C2_Witness ==
    /\ Generated
    /\ LET idx == TemplateIndexes(suggested_tasks,
                                  Rendered(UsedTemplates, event.title, 1), 1)
       IN  /\ \E i \in 1..(Len(suggested_tasks) - 1) :
                 suggested_tasks[i].scheduled_time = suggested_tasks[i + 1].scheduled_time
           /\ \E i \in 1..(Len(suggested_tasks) - 1) : idx[i] > idx[i + 1]

\* C3: when no category scores anything (nothing of the catalog occurs in
\* title, description and location), classify_event_type returns confidence
\* exactly 50 and the generic fallback category.
C3_NoScoreIsGeneric ==
    (pc = "classified" /\ NoScore(classification.all_scores)) =>
        /\ classification.confidence = FromInt(50)
        /\ classification.type = "general"

\* C4: the confidence classify_event_type returns is exactly 50 or lies in
\* [30, 95]; it is never above 95.
C4_ClassificationConfidenceRange ==
    pc = "classified" =>
        LET c == classification.confidence
        IN  /\ FLeq(c, FromInt(95))
            /\ \/ c = FromInt(50)
               \/ FLeq(FromInt(30), c) /\ FLeq(c, FromInt(95))

\* C4 witness: a single category holds the whole score (share 100%) and the
\* returned confidence is the cap 95.
C4_Witness ==
    /\ pc = "classified"
    /\ classification.confidence = FromInt(95)
    /\ Cardinality({c \in DOMAIN classification.all_scores :
                        classification.all_scores[c] > 0}) = 1

Scenario3 == EventOf("Company holiday party", "", "", 4 * 3600)

\* C5 as stated: "Company holiday party" (4 h) is classified social_event and
\* the returned list holds a suggestion with relation "after".
C5_HolidayPartyHasAfter ==
    (Generated /\ event = Scenario3) =>
        /\ analysis_metadata.event_classification.type = "social_event"
        /\ \E i \in 1..Len(suggested_tasks) : suggested_tasks[i].relation = "after"

\* C5 amended: "Company holiday party" (4 h) is classified social_event and
\* the returned list holds no "after" suggestion: the thank-you template
\* (multiplier 0.2) is suppressed at complexity 1.0, and the four suggestions
\* returned are all "before".
C5_HolidayPartyOnlyBefore ==
    (Generated /\ event = Scenario3) =>
        /\ analysis_metadata.event_classification.type = "social_event"
        /\ Len(suggested_tasks) = 4
        /\ \A i \in 1..Len(suggested_tasks) : suggested_tasks[i].relation = "before"

\* C5 witness: generate_task_suggestions has run on the holiday party event.
C5_Witness ==
    /\ Generated
    /\ event = Scenario3
    /\ analysis_metadata.complexity_analysis.score = FromInt(1)
    /\ suggested_tasks # <<>>

Scenario2 == EventOf("Final exam review", "comprehensive final", "", 3 * 3600)

\* C6 as stated: "Final exam review" / "comprehensive final" (3 h) is
\* classified exam_study and its complexity tier is "high".
C6_FinalExamHighTier ==
    event = Scenario2 =>
        /\ pc = "classified" => classification.type = "exam_study"
        /\ pc = "analyzed" => complexity.category = "high"

\* C6 amended: the event is classified exam_study and its complexity tier is
\* "low", with score 1.2 (the one high-priority keyword "final").
C6_FinalExamLowTier ==
    event = Scenario2 =>
        /\ pc = "classified" => classification.type = "exam_study"
        /\ pc = "analyzed" =>
              /\ complexity.category = "low"
              /\ complexity.score = Ratio(12, 10)

\* C6 witness: analyze_event_complexity has run on the final exam event and
\* found the keyword "final".
C6_Witness ==
    /\ event = Scenario2
    /\ pc = "analyzed"
    /\ complexity.factors = <<"high-priority keyword: final">>

\* C7: analyze_event_complexity applies the duration factor x2.0 ("very long
\* duration") when duration_hours > 8, x1.5 ("long duration") when
\* 4 < duration_hours <= 8, and none when duration_hours <= 4.
C7_DurationFactor ==
    pc = "analyzed" =>
        LET d == DurationSeconds(event)
            plain == event.title = "" /\ event.description = "" /\ event.location = ""
        IN  /\ d > 8 * 3600 =>
                 /\ complexity.factors # <<>>
                 /\ complexity.factors[1] = "very long duration"
                 /\ plain => complexity.score = FromInt(2)
            /\ (d > 4 * 3600 /\ d <= 8 * 3600) =>
                 /\ complexity.factors # <<>>
                 /\ complexity.factors[1] = "long duration"
                 /\ plain => complexity.score = Ratio(15, 10)
            /\ d <= 4 * 3600 =>
                 /\ \A i \in 1..Len(complexity.factors) :
                       complexity.factors[i] \notin {"long duration", "very long duration"}
                 /\ plain => complexity.score = FromInt(1)

\* C8: the score analyze_event_complexity returns satisfies
\* 1.0 <= score <= 3.0 for every input.
C8_ComplexityScoreRange ==
    pc = "analyzed" =>
        /\ FLeq(FromInt(1), complexity.score)
        /\ FLeq(complexity.score, FromInt(3))

\* C8 witness: duration, location, keyword and stakeholder factors all apply
\* and the returned score is the cap 3.0.
C8_Witness ==
    /\ pc = "analyzed"
    /\ complexity.score = FromInt(3)
    /\ Len(complexity.factors) >= 5

\* C9: a template of the resolved category produces a suggestion if and only
\* if complexity_multiplier * complexity score >= 0.5: none below the
\* threshold, exactly one at or above it.
C9_TemplateSuppression ==
    Generated =>
        LET rendered == Rendered(UsedTemplates, event.title, 1)
            score == analysis_metadata.complexity_analysis.score
            Emitted(k) == {i \in 1..Len(suggested_tasks) :
                              suggested_tasks[i].description = rendered[k]}
        IN  /\ \A k \in 1..Len(UsedTemplates) :
                  Cardinality(Emitted(k)) =
                     IF ProductBelowHalf(Multiplier(UsedTemplates[k]), score)
                     THEN 0 ELSE 1
            /\ \A i \in 1..Len(suggested_tasks) :
                  \E k \in 1..Len(UsedTemplates) :
                     suggested_tasks[i].description = rendered[k]

\* C9 witness: one call in which a template is suppressed and a template
\* exactly at the threshold (0.5 * 1.0) is emitted.
C9_Witness ==
    /\ Generated
    /\ analysis_metadata.complexity_analysis.score = FromInt(1)
    /\ Len(suggested_tasks) < Len(UsedTemplates)
    /\ \E i \in 1..Len(suggested_tasks) :
          suggested_tasks[i].complexity_factor = Ratio(5, 10)

\* C10: when the winning category's share of the total score is below 30%,
\* classify_event_type returns the generic fallback with confidence exactly 50
\* and generate_task_suggestions uses the "appointment" templates; every
\* suggestion's category is a catalog key and all suggestions of a call carry
\* the same category.
C10_LowShareFallsBack ==
    LET LowShare(all_scores) ==
            LET total == SumSeq([i \in 1..Len(CategoryOrder) |-> all_scores[CategoryOrder[i]]])
            IN  /\ total > 0
                /\ \A c \in DOMAIN all_scores : 100 * all_scores[c] < 30 * total
    IN  /\ (pc = "classified" /\ LowShare(classification.all_scores)) =>
              /\ classification.type = "general"
              /\ classification.confidence = FromInt(50)
        /\ (Generated /\ LowShare(analysis_metadata.event_classification.all_scores)) =>
              /\ analysis_metadata.event_classification.type = "general"
              /\ \A i \in 1..Len(suggested_tasks) :
                    /\ suggested_tasks[i].category = "appointment"
                    /\ \E k \in 1..Len(Appointment.tasks) :
                          suggested_tasks[i].description =
                             Format(Appointment.tasks[k].template, event.title)
        /\ Generated =>
              \A i \in 1..Len(suggested_tasks) :
                 /\ suggested_tasks[i].category \in DOMAIN EVENT_CATEGORIES
                 /\ suggested_tasks[i].category = suggested_tasks[1].category

\* C10 witness: a call on a low-share event that returned suggestions built
\* from the appointment templates.
C10_Witness ==
    /\ Generated
    /\ analysis_metadata.event_classification.type = "general"
    /\ ~NoScore(analysis_metadata.event_classification.all_scores)
    /\ suggested_tasks # <<>>
    /\ suggested_tasks[1].category = "appointment"

\* what generate_task_suggestions returns for an event when it runs alone
Alone(ev) ==
    GenerateTaskSuggestions(
        ev,
        ClassifyEventType(ev.title, ev.description, ev.location),
        AnalyzeEventComplexity(ev.title, ev.description, ev.location,
                               DurationHours(ev.start_time, ev.end_time)))

\* an event with an empty text field, or one that does not end after it starts
Degenerate(ev) ==
    \/ ev.title = ""
    \/ ev.description = ""
    \/ ev.location = ""
    \/ DurationSeconds(ev) <= 0

\* the score of the location, keyword and stakeholder steps alone, from 1.0,
\* under the cap every complexity score is under
ScoreWithoutDuration(ev) ==
    ComplexityResult(
        StakeholderStep(
            Lower(Chars(ev.title \o " " \o ev.description \o " " \o ev.location)),
            KeywordLoop(
                Lower(Chars(ev.title \o " " \o ev.description \o " " \o ev.location)),
                1,
                LocationStep(ev.location,
                             [score |-> FromInt(1), factors |-> <<>>])))).score

\* C13: generate_task_suggestions never raises for an event with an empty
\* title, description or location, nor for a zero or negative duration: the
\* call on such an event has a value, and what it returns is a list; and for a duration of zero
\* or less the complexity has no duration factor: its score is that of the
\* location, keyword and stakeholder factors only, and is at least 1.0.
C13_DegenerateInput ==
    Degenerate(event) =>
        /\ pc = "idle" => LET returned == Alone(event)
                           IN  DOMAIN returned = 1..Len(returned)
        /\ Generated => DOMAIN suggested_tasks = 1..Len(suggested_tasks)
        /\ ((Generated \/ pc = "analyzed") /\ DurationSeconds(event) <= 0) =>
               /\ \A i \in 1..Len(complexity.factors) :
                      complexity.factors[i] \notin {"long duration", "very long duration"}
               /\ complexity.score = ScoreWithoutDuration(event)
               /\ FLeq(FromInt(1), complexity.score)

\* a call has returned suggestions for an event that ends five hours before
\* it starts, has an empty description, and has factors other than duration
C13_Witness ==
    /\ Generated
    /\ DurationSeconds(event) = 0 - 5 * 3600
    /\ event.description = ""
    /\ Len(suggested_tasks) >= 2
    /\ Len(complexity.factors) >= 2
    /\ FLess(FromInt(1), complexity.score)

\* the template each returned suggestion came from, in the order of the list
SourceTemplates ==
    [i \in 1..Len(suggested_tasks) |->
        UsedTemplates[TemplateIndexes(suggested_tasks,
                                      Rendered(UsedTemplates, event.title, 1), 1)[i]]]

\* a tenth of a day, in seconds
TenthOfDay == 8640

\* time - (total_prep_days * tenths / 10) days, in exact arithmetic
PrepOffsetBefore(time, total_prep_days, tenths) ==
    Normalize(time.days, time.seconds - total_prep_days * tenths * TenthOfDay,
              time.microseconds)

\* C20: for every emitted suggestion: when its template has days_after, the
\* scheduled_time is end_time + days_after days and the relation "after";
\* otherwise when it has days_before, the scheduled_time is start_time -
\* days_before days and the relation "before"; otherwise the scheduled_time
\* is start_time - (total_prep_days * complexity_multiplier) days and the
\* relation "before".
C20_ScheduleTiers ==
    Generated =>
        \A i \in 1..Len(suggested_tasks) :
            LET t == SourceTemplates[i]
                s == suggested_tasks[i]
            IN  IF t.days_after # None
                THEN /\ s.scheduled_time =
                           [event.end_time EXCEPT !.days = @ + t.days_after[1]]
                     /\ s.relation = "after"
                ELSE IF t.days_before # None
                THEN /\ s.scheduled_time =
                           [event.start_time EXCEPT !.days = @ - t.days_before[1]]
                     /\ s.relation = "before"
                ELSE /\ s.scheduled_time =
                           PrepOffsetBefore(event.start_time,
                                            analysis_metadata.preparation_days,
                                            t.complexity_multiplier)
                     /\ s.relation = "before"

\* one returned list holds a suggestion of each kind, the third a fraction
\* of a day before an event that does not end when it starts
C20_Witness ==
    /\ Generated
    /\ DurationSeconds(event) # 0
    /\ \E i, j, k \in 1..Len(suggested_tasks) :
          /\ SourceTemplates[i].days_after # None
          /\ SourceTemplates[j].days_after = None
          /\ SourceTemplates[j].days_before # None
          /\ SourceTemplates[k].days_after = None
          /\ SourceTemplates[k].days_before = None
          /\ suggested_tasks[k].scheduled_time.seconds # event.start_time.seconds

(***************************************************************************)
(* Claims about successive and concurrent calls (specification SpecCalls). *)
(***************************************************************************)
\* the call of a caller has returned
Returned(call) == call.pc = "done"

\* C11: generate_task_suggestions is deterministic: the second of two
\* successive calls on the same event returns a list identical to the first
\* (same length, same order, and in every entry the same description,
\* scheduled_time, relation, confidence and category).
C11_Deterministic ==
    \A c \in DOMAIN calls :
        (calls[c].again /\ Returned(calls[c])) =>
            /\ Len(calls[c].returned) = Len(calls[c].previous)
            /\ \A k \in 1..Len(calls[c].returned) :
                   calls[c].returned[k] = calls[c].previous[k]

\* a second call has returned a list of several suggestions
C11_Witness ==
    \E c \in DOMAIN calls :
        /\ calls[c].again
        /\ Returned(calls[c])
        /\ Len(calls[c].returned) >= 2

\* C12: calls share no mutable state: no step of a call changes
\* EVENT_CATEGORIES, the event_analyzer instance or the event, and under
\* every interleaving of calls on different events each call returns
\* exactly the list it returns when it runs alone.
C12_NoSharedState ==
    /\ [][/\ shared' = shared
          /\ \A c \in DOMAIN calls : calls'[c].event = calls[c].event]_vars
    /\ [](\A c \in DOMAIN calls :
             Returned(calls[c]) => calls[c].returned = Alone(calls[c].event))

\* two calls on different events have overlapped and both have returned
C12_Witness ==
    /\ calls # <<>>
    /\ \A c \in DOMAIN calls : Returned(calls[c]) /\ calls[c].overlapped
    /\ calls[1].event # calls[2].event
    /\ calls[1].returned # calls[2].returned

(***************************************************************************)
(* Claims about the REST action (specification SpecApi).                   *)
(***************************************************************************)
\* C14: create_suggested_tasks, addressed by a user to an event of theirs,
\* creates exactly one Task per entry of selected_suggestions, in order,
\* each with the suggestion's description and scheduled_time, the requesting
\* user as owner, the addressed event as event and completed = False, leaves
\* the tasks there were alone and responds 201; when selected_suggestions is
\* missing or empty it responds 400, creates no task and processes no
\* feedback.
C14_CreateSuggestedTasks ==
    [][Found(request'.user, request'.pk) =>
         LET selected == Get(request'.data, "selected_suggestions", <<>>)
         IN  IF selected = <<>>
             THEN /\ response'.status = 400
                  /\ task_rows' = task_rows
                  /\ feedback' = feedback
             ELSE /\ response'.status = 201
                  /\ Len(task_rows') = Len(task_rows) + Len(selected)
                  /\ SubSeq(task_rows', 1, Len(task_rows)) = task_rows
                  /\ \A k \in 1..Len(selected) :
                        LET task == task_rows'[Len(task_rows) + k]
                        IN  /\ task.description = selected[k].description
                            /\ task.scheduled_time = selected[k].scheduled_time
                            /\ task.owner = request'.user
                            /\ task.event = <<request'.pk>>
                            /\ task.completed = FALSE
                  /\ Len(response'.data) = Len(selected)
                  /\ Len(feedback') = Len(feedback) + 1]_vars

\* a request with two selected suggestions has been answered 201 after an
\* earlier request of the other user had created a task
C14_Witness ==
    /\ response # <<>>
    /\ response.status = 201
    /\ Len(request.data.selected_suggestions) = 2
    /\ Len(task_rows) = 3
    /\ task_rows[1].owner # request.user
    /\ task_rows[3].owner = request.user
    /\ Len(feedback) = 2

\* a request without selected_suggestions has been answered 400 with the
\* tasks of an earlier request in place
C14_WitnessNoneSelected ==
    /\ response # <<>>
    /\ response.status = 400
    /\ "selected_suggestions" \notin DOMAIN request.data
    /\ Len(task_rows) = 2
    /\ Len(feedback) = 1

(***************************************************************************)
(* Claims about stored events (specification SpecEvents).                  *)
(***************************************************************************)
\* the handler turned the request down
Rejected(answer) ==
    \/ answer.status \in {HTTP_400_BAD_REQUEST, HTTP_404_NOT_FOUND}
    \/ answer.handler \in {"event_create", "event_edit"} /\ answer.status = HTTP_200_OK

\* C15: after any sequence of create, full update and partial update
\* requests through EventCreateSerializer / EventUpdateSerializer and of
\* posts to the frontend views event_create / event_edit, every stored event
\* has end_time > start_time, and a request that is rejected leaves the
\* stored events unchanged.
C15_EndAfterStart ==
    /\ [](\A pk \in 1..Len(event_rows) :
             event_rows[pk].end_time > event_rows[pk].start_time)
    /\ [][Rejected(response') => event_rows' = event_rows]_vars

\* a partial update has been accepted on the second of two stored events,
\* which now begins later than the earliest instant
C15_Witness ==
    /\ response # <<>>
    /\ response.handler = "partial_update"
    /\ response.status = HTTP_200_OK
    /\ Len(event_rows) = 2
    /\ event_rows[2].owner = response.user
    /\ event_rows[2].start_time > 1

(***************************************************************************)
(* Claims about the statistics models (specification SpecStats).           *)
(***************************************************************************)
\* C16: for a StreakTracking record that starts with current_count =
\* best_count = 0, under any sequence of increment_streak and break_streak
\* calls: a call either raises current_count by exactly 1 (increment_streak)
\* or sets it to 0 and leaves best_count unchanged (break_streak);
\* best_count never decreases; and best_count always equals the largest
\* current_count reached so far, hence best_count >= current_count.
C16_StreakCounts ==
    /\ [](streak # <<>> =>
             /\ streak.best_count = largest_count
             /\ streak.best_count >= streak.current_count)
    /\ [][/\ \/ streak'.current_count = streak.current_count + 1
             \/ /\ streak'.current_count = 0
                /\ streak'.best_count = streak.best_count
          /\ streak'.best_count >= streak.best_count]_streak

\* the streak was broken at its best and has been taken up again
C16_Witness ==
    /\ streak # <<>>
    /\ streak.current_count = 1
    /\ streak.best_count = 3

RECURSIVE IntPow(_, _)
IntPow(b, n) == IF n = 0 THEN 1 ELSE b * IntPow(b, n - 1)

\* the whole part of 100 * 1.5^(level - 1), in exact arithmetic
LevelThreshold(level) == (100 * IntPow(3, level - 1)) \div IntPow(2, level - 1)

\* the XPLog row the call has just written
NewLogEntry == xp_log'[Len(xp_log')]

GoalUpdated ==
    \/ goal' # goal
    \/ /\ xp_log' # xp_log
       /\ NewLogEntry.reason = "Goal completed: " \o GoalTitle

C19_CompletedIffCompletedAt ==
    \A pk \in 1..Len(task_rows) :
        task_rows[pk].completed <=> task_rows[pk].completed_at # None

(***************************************************************************)
(* Claims about the schedule, the scores and the confidences of one call   *)
(* (specification Spec).                                                   *)
(***************************************************************************)
\* the returned suggestions whose template has neither days_before nor
\* days_after
Distributed ==
    {i \in 1..Len(suggested_tasks) :
        /\ SourceTemplates[i].days_after = None
        /\ SourceTemplates[i].days_before = None}

\* C21: every suggestion produced from a template without a fixed offset
\* lies inside the preparation window: start_time - total_prep_days days <=
\* scheduled_time <= start_time.
C21_InsidePreparationWindow ==
    Generated =>
        \A i \in Distributed :
            /\ DtLeq([event.start_time EXCEPT
                         !.days = @ - analysis_metadata.preparation_days],
                     suggested_tasks[i].scheduled_time)
            /\ DtLeq(suggested_tasks[i].scheduled_time, event.start_time)

\* a finished classify_event_type call, alone or inside generate_task_suggestions
Classified == pc \in {"classified", "generated"}

\* the largest raw score of a classification
MaxScore(all_scores) ==
    CHOOSE s \in {all_scores[c] : c \in CategoryNames} :
        \A c \in CategoryNames : all_scores[c] <= s

\* the categories that share the largest raw score
Leaders(all_scores) == {c \in CategoryNames : all_scores[c] = MaxScore(all_scores)}

\* the leader no other leader precedes in the catalog order
FirstLeader(all_scores) ==
    CHOOSE c \in Leaders(all_scores) :
        \A d \in Leaders(all_scores) : CategoryIndex(c) <= CategoryIndex(d)

\* the winner's share of the scores is below 30 percent
BelowThirty(all_scores) ==
    LET total == SumSeq([i \in 1..Len(CategoryOrder) |-> all_scores[CategoryOrder[i]]])
    IN  total > 0 /\ MaxScore(all_scores) * 100 < 30 * total

\* C22: when several categories share the exact same maximum raw score,
\* classify_event_type picks the one that comes first in the catalog order
\* meeting, exam_study, travel, project, presentation, appointment,
\* social_event (and answers with it unless its share of the scores is below
\* 30 percent, when the type is 'general').
C22_TieBreakByCatalogOrder ==
    Classified =>
        classification.type =
            IF BelowThirty(classification.all_scores) THEN "general"
            ELSE FirstLeader(classification.all_scores)

\* two categories share a positive maximum and the earlier one is returned
C22_Witness ==
    /\ Classified
    /\ Cardinality(Leaders(classification.all_scores)) >= 2
    /\ MaxScore(classification.all_scores) > 0
    /\ classification.type = FirstLeader(classification.all_scores)

\* the lowercased title+description+location of an event, and its lowercased
\* title
Blob(ev) == Lower(Chars(ev.title \o " " \o ev.description \o " " \o ev.location))

TitleLower(ev) == Lower(Chars(ev.title))

\* (pattern_index + 1) * 10 per match of each detection pattern, pattern_index
\* counted from 0
PatternPoints(c, ev) ==
    LET patterns == EVENT_CATEGORIES[c].patterns
        RECURSIVE From(_)
        From(k) == IF k > Len(patterns) THEN 0
                   ELSE k * 10 * FindAllCount(patterns[k], Blob(ev)) + From(k + 1)
    IN  From(1)

\* 50 for each title keyword of the category contained in the title
TitlePoints(c, ev) ==
    50 * Cardinality({k \in 1..Len(CategoryKeywords[c]) :
                         Contains(CategoryKeywords[c][k], TitleLower(ev))})

\* 5 / 3 / 1 for each high / medium / low complexity keyword in the text
KeywordPoints(c, ev) ==
    LET f == EVENT_CATEGORIES[c].complexity_factors
        Hits(list) == Cardinality({k \in 1..Len(list) : Contains(list[k], Blob(ev))})
    IN  5 * Hits(f.high) + 3 * Hits(f.medium) + Hits(f.low)

TotalScore(all_scores) ==
    SumSeq([i \in 1..Len(CategoryOrder) |-> all_scores[CategoryOrder[i]]])

\* C23: each category's raw score is the sum over its detection patterns of
\* (pattern_index + 1) * 10 per match in the lowercased
\* title+description+location, plus 50 for each of its title keywords
\* contained in the lowercased title, plus 5 / 3 / 1 for each high / medium /
\* low complexity keyword contained in the text; the winner is a category
\* with the maximum score, and the confidence is winning_score / sum of all
\* scores * 100 capped at 95, or 50 when the sum is 0 (for a result the
\* below-30 rule does not replace).
C23_RawScoresAndConfidence ==
    Classified =>
        LET s == classification.all_scores
        IN  /\ \A c \in CategoryNames :
                  s[c] = PatternPoints(c, event) + TitlePoints(c, event)
                         + KeywordPoints(c, event)
            /\ ~BelowThirty(s) =>
                  /\ classification.type \in Leaders(s)
                  /\ classification.confidence =
                        IF TotalScore(s) = 0 THEN FromInt(50)
                        ELSE FMin(FMul(Ratio(MaxScore(s), TotalScore(s)), FromInt(100)),
                                  FromInt(95))

\* the winner has points of all three kinds, from a pattern that is not the
\* first of its list among them, another category scores too, and the
\* confidence is the share itself, below the cap
C23_Witness ==
    /\ Classified
    /\ classification.type \in CategoryNames
    /\ PatternPoints(classification.type, event) >= 20
    /\ TitlePoints(classification.type, event) > 0
    /\ KeywordPoints(classification.type, event) > 0
    /\ TotalScore(classification.all_scores) > MaxScore(classification.all_scores)
    /\ FLess(classification.confidence, FromInt(95))
    /\ FLess(FromInt(30), classification.confidence)

\* the number of words of the list contained in the lowercased
\* title+description+location
Present2(words, ev) == Cardinality({w \in {words[i] : i \in 1..Len(words)} :
                                      Contains(w, Blob(ev))})

HighPriorityCount(ev) == Present2(HighComplexityWords, ev)

StakeholderCount(ev) == Present2(StakeholderWords, ev)

ComplexLocation(ev) ==
    \E w \in {Chars("international"), Chars("airport"), Chars("conference center")} :
        Contains(w, Lower(Chars(ev.location)))

RECURSIVE BPow(_, _)
BPow(b, n) == IF n = 0 THEN BFromInt(1) ELSE BMul(BFromInt(b), BPow(b, n - 1))

\* L * 1.2^k * (1 + 0.1 * n) as the exact fraction num / den
ProductNum(ev) ==
    BMul(BMul(BFromInt(IF ComplexLocation(ev) THEN 13 ELSE 10),
              BPow(12, HighPriorityCount(ev))),
         BFromInt(10 + StakeholderCount(ev)))

ProductDen(ev) == BPow(10, HighPriorityCount(ev) + 2)

\* the float x is num / den up to one part in 2^40
Near(x, num, den) ==
    LET a == BMul(x.m, den)
        b == BShl(num, 0 - x.e)
    IN  /\ ~BLess(BAdd(BShl(b, 40), b), BShl(a, 40))
        /\ ~BLess(BAdd(BShl(a, 40), a), BShl(b, 40))

\* num / den >= p / q
AtLeast(num, den, p, q) == ~BLess(BMul(num, BFromInt(q)), BMul(den, BFromInt(p)))

TierOf(num, den) ==
    IF AtLeast(num, den, 2, 1) THEN "high"
    ELSE IF AtLeast(num, den, 13, 10) THEN "medium"
    ELSE "low"

Analyzed == pc \in {"analyzed", "generated"}

\* C24: for duration_hours <= 4, analyze_event_complexity returns score =
\* min(3.0, L * 1.2^k * (1 + 0.1 * n)) with L = 1.3 for a location that
\* contains "international", "airport" or "conference center" (else 1), k
\* the number of distinct high-priority keywords in the combined text and n
\* the number of distinct stakeholder keywords in it; the tier is "high" iff
\* score >= 2.0, "medium" iff 1.3 <= score < 2.0, otherwise "low", and the
\* tier of the uncapped product is the tier of the capped score.
C24_ShortEventScore ==
    (Analyzed /\ DurationSeconds(event) <= 4 * 3600) =>
        LET num == ProductNum(event)
            den == ProductDen(event)
        IN  /\ IF AtLeast(num, den, 3, 1)
               THEN complexity.score = FromInt(3)
               ELSE Near(complexity.score, num, den)
            /\ complexity.category = TierOf(num, den)
            /\ complexity.category =
                  IF FLeq(FromInt(2), complexity.score) THEN "high"
                  ELSE IF FLeq(Ratio(13, 10), complexity.score) THEN "medium"
                  ELSE "low"

\* a one-hour event at a conference center with six high-priority keywords
\* and two stakeholder keywords: the product is above 3.0, the score 3.0
C24_Witness ==
    /\ Analyzed
    /\ DurationSeconds(event) = 3600
    /\ ComplexLocation(event)
    /\ HighPriorityCount(event) = 6
    /\ StakeholderCount(event) = 2
    /\ complexity.score = FromInt(3)
    /\ complexity.category = "high"

\* a two-hour event with four stakeholder keywords and nothing else: the
\* score is 1.4, the tier medium
C24_WitnessStakeholders ==
    /\ Analyzed
    /\ DurationSeconds(event) = 2 * 3600
    /\ HighPriorityCount(event) = 0
    /\ StakeholderCount(event) = 4
    /\ complexity.category = "medium"

\* the boost applies: tier "high" and multiplier > 0.8, or tier "low" and
\* multiplier < 0.5 (the multiplier in tenths)
Boosted(tier, tenths) ==
    \/ tier = "high" /\ tenths > 8
    \/ tier = "low" /\ tenths < 5

\* trunc(min(95, confidence * tenths / 10 * factor / 100)) in exact arithmetic
\* on the value of the float confidence
TruncCapped(confidence, tenths, factor) ==
    LET n     == BMul(confidence.m, BFromInt(tenths * factor))
        whole == IF confidence.e >= 0 THEN BShl(n, confidence.e)
                 ELSE BShr(n, 0 - confidence.e).v
        q     == BDivRem(whole, 1000).q
    IN  IF BLess(BFromInt(95), q) THEN 95 ELSE BToInt(q)

\* C25: for each emitted suggestion, confidence = trunc(c') where c =
\* min(95, classification confidence * template.complexity_multiplier) and
\* c' = min(95, c * 1.05) exactly when (tier is "high" and multiplier > 0.8)
\* or (tier is "low" and multiplier < 0.5), otherwise c' = c.
C25_SuggestionConfidence ==
    Generated =>
        \A i \in 1..Len(suggested_tasks) :
            suggested_tasks[i].confidence =
                TruncCapped(classification.confidence,
                            SourceTemplates[i].complexity_multiplier,
                            IF Boosted(complexity.category,
                                       SourceTemplates[i].complexity_multiplier)
                            THEN 105 ELSE 100)

\* base_prep_days of the category a finished call used
BasePrepDays == EVENT_CATEGORIES[UsedCategory].base_prep_days

\* floor(n * x) in exact arithmetic on the value of the float x >= 1
FloorTimes(n, x) == BToInt(BShr(BMul(BFromInt(n), x.m), 0 - x.e).v)

\* C26: total_prep_days = floor(base_prep_days * complexity score) for the
\* resolved category (the product being the float product of the code, which
\* is the exact product or the whole number just above it), so base_prep_days
\* <= total_prep_days <= 3 * base_prep_days for every input; for
\* title="Final exam review", description="comprehensive final", duration 3
\* hours it is strictly greater than the 7-day exam_study base.
C26_PreparationDays ==
    Generated =>
        /\ analysis_metadata.preparation_days =
              FTrunc(FMul(FromInt(BasePrepDays), complexity.score))
        /\ analysis_metadata.preparation_days - FloorTimes(BasePrepDays, complexity.score)
              \in {0, 1}
        /\ BasePrepDays <= analysis_metadata.preparation_days
        /\ analysis_metadata.preparation_days <= 3 * BasePrepDays
        /\ event = Scenario2 =>
              /\ UsedCategory = "exam_study"
              /\ BasePrepDays = 7
              /\ analysis_metadata.preparation_days > 7

\* the final exam review has been given 8 days, the whole part of 7 * 1.2
C26_Witness ==
    /\ Generated
    /\ event = Scenario2
    /\ analysis_metadata.preparation_days = 8

\* an event of the largest complexity is given three times the base
C26_WitnessLargest ==
    /\ Generated
    /\ complexity.score = FromInt(3)
    /\ analysis_metadata.preparation_days = 3 * BasePrepDays

Scenario1 == EventOf("Team weekly meeting", "Regular sync", "", 3600)

\* the templates of a category that are scheduled before the event and
\* whose multiplier is at least 0.5
SafeBeforeTemplates(c) ==
    {k \in 1..Len(EVENT_CATEGORIES[c].tasks) :
        /\ ~Truthy(EVENT_CATEGORIES[c].tasks[k].days_after)
        /\ EVENT_CATEGORIES[c].tasks[k].complexity_multiplier >= 5}

\* C27: for every input, generate_task_suggestions returns a non-empty list
\* that contains at least one suggestion with relation "before" (every
\* catalog category has a before-template whose multiplier is at least 0.5);
\* for title="Team weekly meeting", description="Regular sync", duration 1
\* hour the category is meeting with classification confidence > 50.
C27_SomeBeforeSuggestion ==
    /\ \A c \in CategoryNames : SafeBeforeTemplates(c) # {}
    /\ Generated =>
          /\ suggested_tasks # <<>>
          /\ \E i \in 1..Len(suggested_tasks) : suggested_tasks[i].relation = "before"
    /\ (Classified /\ event = Scenario1) =>
          /\ classification.type = "meeting"
          /\ FLess(FromInt(50), classification.confidence)

\* the weekly meeting has its suggestions: templates were suppressed, and a
\* "before" suggestion is among those that remain
C27_Witness ==
    /\ Generated
    /\ event = Scenario1
    /\ classification.type = "meeting"
    /\ Len(suggested_tasks) < Len(UsedTemplates)
    /\ \E i \in 1..Len(suggested_tasks) : suggested_tasks[i].relation = "before"

\* C28: the module-level function classify_event_type(title, description)
\* returns, for every title and description, the same category as
\* event_analyzer.classify_event_type(title, description)['type'].
C28_WrapperAgrees ==
    pc = "named" =>
        returned_type = ClassifyEventType(event.title, event.description, "").type

\* C29: in every returned list the relation agrees with the schedule: each
\* suggestion with relation "before" has scheduled_time strictly earlier
\* than start_time and each suggestion with relation "after" has
\* scheduled_time strictly later than end_time; hence whenever end_time >=
\* start_time every "before" suggestion precedes every "after" suggestion in
\* the returned order.
C29_RelationAgreesWithSchedule ==
    Generated =>
        /\ \A i \in 1..Len(suggested_tasks) :
              /\ suggested_tasks[i].relation \in {"before", "after"}
              /\ suggested_tasks[i].relation = "before" =>
                    DtLess(suggested_tasks[i].scheduled_time, event.start_time)
              /\ suggested_tasks[i].relation = "after" =>
                    DtLess(event.end_time, suggested_tasks[i].scheduled_time)
        /\ DtLeq(event.start_time, event.end_time) =>
              \A i, j \in 1..Len(suggested_tasks) :
                  (/\ suggested_tasks[i].relation = "before"
                   /\ suggested_tasks[j].relation = "after") => i < j

\* a returned list for an event that ends after it starts holds a suggestion
\* the day before the event, from a template with days_before, and after it
\* a follow-up
C29_Witness ==
    /\ Generated
    /\ DtLess(event.start_time, event.end_time)
    /\ \E i, j \in 1..Len(suggested_tasks) :
          /\ i < j
          /\ suggested_tasks[i].relation = "before"
          /\ SourceTemplates[i].days_before # None
          /\ suggested_tasks[j].relation = "after"

\* the XPLog rows of the goal's completion reward
RewardRows ==
    {i \in 1..Len(xp_log) : xp_log[i].reason = "Goal completed: " \o GoalTitle}

\* C30: a goal's completion reward is granted at most once: over any
\* sequence of update_progress calls on one goal, reward_xp is added to the
\* owner's total_xp once, at the call that first makes current_progress >=
\* target_value, and further calls on the completed goal add no XP.
C30_RewardAtMostOnce ==
    /\ Cardinality(RewardRows) <= 1
    /\ (goal # <<>> /\ goal.status = "active") => RewardRows = {}

====
